---- MODULE Spec2Model ----
(***************************************************************************)
(* Session lifecycle of the DJ set compiler (backend/app/main.py,           *)
(* backend/app/tasks.py, backend/app/redis_store.py).                       *)
(*                                                                         *)
(* The model follows ONE session id through the REST surface, the          *)
(* in-process background tasks and the Celery tasks.  All state of the     *)
(* program is keyed by session id (a fresh uuid4), so the variables below  *)
(* are the entries of that one id in the program's stores:                 *)
(*   redis_job     opus:job:<id> in Redis (use_celery)                      *)
(*   sessions, job_status, job_result, job_error, folder_jobs              *)
(*                 the module-level dicts of main.py (no Redis)            *)
(*   dir_exists, files   session_root/<id>/ and the files in it            *)
(* A file is a pair <<kind, n>>.                                            *)
(***************************************************************************)
EXTENDS Integers, Sequences, FiniteSets, TLC

\* ---------------------------------------------------------------- bounds
\* Most tracks one POST /process-folder uploads.
MaxTracks == 4
\* Background renders of POST /generate that may be in flight at once.
MaxRenders == 2
\* Download streams that may be open at once.
MaxStreams == 2
\* 1 MiB chunks an artifact is read in.
NumChunks == 2
\* Temporary directories one run hands out.
MaxTemps == 2
\* Tracks in a playlist handed to the sequencer (the worked example has five).
MaxPlaylist == 3
\* Calls of POST /admin/config and of GET /admin/config in one run.
MaxPosts == 2
MaxGets == 2

VARIABLES
    use_celery,        \* settings.use_celery: fixed for the process
    origin,            \* "none" | "two" (POST /session) | "folder" (POST /process-folder)
    pf,                \* locals of the POST /process-folder handler
    dir_exists,        \* session_root/<id> exists
    files,             \* files in session_root/<id>
    set_content,       \* set_final.wav: the transitions concatenated, in file order
    tracklist_content, \* tracklist.txt: the transition blocks, in file order
    redis_job,         \* Redis record of the session, or NoJob
    sessions,          \* _sessions[id]: "absent" | "None" | "Path"
    job_status,        \* _job_status[id]: "absent" | "processing" | "ready" | "failed"
    job_result,        \* _job_result[id]: "absent" | "mix" (its set_path)
    job_error,         \* _job_error[id]: "none" or the message
    folder_jobs,       \* _folder_jobs[id], or NoJob
    bg,                \* _run_render_background calls: slot -> position
    pipe,              \* locals of _run_folder_pipeline
    brain,             \* locals of the Celery task run_folder_pipeline
    header,            \* the chord header: idx of each render_segment signature, in order
    seg_state,         \* state of each render_segment task of the header
    final,             \* locals of the Celery task finalize_set
    streams,           \* _stream_file_then_delete generators: slot -> position
    downloaded,        \* history: a delete_after stream of the session ran to completion
    abandoned,         \* history: a stream of the session was closed before its end
    tracklist_served,  \* history: a tracklist stream of the session ran to completion
    was_processing,    \* history: the session has been given status processing
    disk,              \* two sessions side by side: the files on disk, [path, owner]
    stored_dir,        \* two sessions: the session_dir recorded for each session id
    last_op,           \* two sessions: the files the last operation wrote or deleted
    temps,             \* two sessions: tempfile.mkdtemp directories handed out so far
    call,              \* mix decision: the arguments of a get_mix_strategy call
    ret,               \* mix decision: what the call returned or raised
    seq,               \* sequencer: the arguments and the result of a sequencer call
    rm,                \* renderer: where a render_mix call is, and what it left behind
    adm,               \* admin config: the config file, the mirror, the calls under way
    style,             \* style prompt: the text given and the intent returned
    par,               \* renders of one session in parallel: their files and positions
    up                 \* two-track uploads: the song files by name, and what is mixed

vars == <<use_celery, origin, pf, dir_exists, files, set_content, tracklist_content,
          redis_job, sessions, job_status, job_result, job_error, folder_jobs,
          bg, pipe, brain, header, seg_state, final, streams,
          downloaded, abandoned, tracklist_served, was_processing,
          disk, stored_dir, last_op, temps, call, ret, seq, rm, adm, style, par, up>>

\* The variables of the single-session lifecycle leave these alone.
isolationVars == <<disk, stored_dir, last_op, temps>>
decisionVars == <<call, ret>>
toolVars == <<seq, rm, adm>>
extraVars == <<style, par, up>>
auxVars == <<isolationVars, decisionVars, toolVars, extraVars>>

fsVars    == <<dir_exists, files, set_content, tracklist_content>>
localVars == <<sessions, job_status, job_result, job_error, folder_jobs>>
celeryVars == <<brain, header, seg_state, final>>
histVars  == <<downloaded, abandoned, tracklist_served, was_processing>>

\* ---------------------------------------------------------------- records
NoJob == [none |-> TRUE]

\* A job dict; a key the dict does not hold is "none" / FALSE / -1 / <<>>.
EmptyJob ==
    [status |-> "none", phase |-> "none", session_dir |-> FALSE,
     current_segment |-> -1, total_segments |-> -1, tracklist_lines |-> <<>>,
     set_path |-> "none", tracklist_path |-> FALSE, error |-> "none"]

Song(label) == <<"song", label>>
Track(i)    == <<"track", i>>
Seg(i)      == <<"seg", i>>
MixWav       == <<"mix", 0>>
SetFinal     == <<"set_final", 0>>
TracklistTxt == <<"tracklist", 0>>
ConcatTxt    == <<"concat", 0>>

\* exts = (".wav", ".mp3", ".flac", ".ogg", ".m4a"): every file but the two .txt
AudioFiles(fs) == {f \in fs : f[1] \notin {"tracklist", "concat"}}

Range(s) == {s[i] : i \in 1..Len(s)}

\* ---------------------------------------------------------------- stores
\* redis_store.set_job: the record is replaced whole (c.set of json.dumps(data)).
set_job(data) == redis_job' = data

\* main._delete_session_dir / tasks._delete_session_dir: shutil.rmtree.
delete_session_dir ==
    /\ dir_exists' = FALSE
    /\ files' = {}
    /\ UNCHANGED <<set_content, tracklist_content>>

\* ---------------------------------------------------------------- Init
IdleBrain == [pc |-> "none", paths |-> {}, total |-> 0, idx |-> -1, lines |-> <<>>]
IdlePipe  == [pc |-> "none", paths |-> {}, total |-> 0, idx |-> 0, lines |-> <<>>,
              segment_paths |-> <<>>]
IdleFinal == [pc |-> "none", lines |-> <<>>]
IdleRequest == [pc |-> "none", n |-> 0, i |-> 0, saved |-> 0]
IdleStream == [pc |-> "idle", path |-> <<"none", 0>>, delete_after |-> FALSE, pos |-> 0]

\* No get_mix_strategy call is being looked at.
NoCall == [client |-> FALSE]
Pending == [kind |-> "pending", path |-> "none"]

DecisionIdle ==
    /\ call = NoCall
    /\ ret = Pending

\* No sequencer call, no render_mix call and no admin config call is being
\* looked at.
NoSequencerCall == [pc |-> "none"]
NoRender == [pc |-> "none"]
NoAdmin == [pc |-> "none"]

\* No style prompt, no parallel renders and no named uploads are being looked at.
NoIntent == [pc |-> "none"]
NoParallel == [pc |-> "none"]
NoUploads == [pc |-> "none"]

ExtraIdle ==
    /\ style = NoIntent
    /\ par = NoParallel
    /\ up = NoUploads

ToolsIdle ==
    /\ seq = NoSequencerCall
    /\ rm = NoRender
    /\ adm = NoAdmin
    /\ ExtraIdle

\* No operation yet on the two sessions that run side by side.
NoDir == <<"none", 0>>
NoOp == [sid |-> 0, paths |-> {}, hit |-> {}, tmp |-> NoDir]
\* The ids of two different sessions (two fresh uuid4 values).
SessionIds == {1, 2}

IsolationIdle ==
    /\ disk = {}
    /\ stored_dir = [sid \in SessionIds |-> NoDir]
    /\ last_op = NoOp
    /\ temps = 0

\* The stores and the directory of a session id nobody has used yet.
SessionStart ==
    /\ origin = "none"
    /\ pf = IdleRequest
    /\ dir_exists = FALSE
    /\ files = {}
    /\ set_content = <<>>
    /\ tracklist_content = <<>>
    /\ redis_job = NoJob
    /\ sessions = "absent"
    /\ job_status = "absent"
    /\ job_result = "absent"
    /\ job_error = "none"
    /\ folder_jobs = NoJob
    /\ bg = [i \in 1..MaxRenders |-> "idle"]
    /\ pipe = IdlePipe
    /\ brain = IdleBrain
    /\ header = <<>>
    /\ seg_state = <<>>
    /\ final = IdleFinal
    /\ streams = [i \in 1..MaxStreams |-> IdleStream]
    /\ downloaded = FALSE
    /\ abandoned = FALSE
    /\ tracklist_served = FALSE
    /\ was_processing = FALSE

Init ==
    /\ use_celery \in BOOLEAN
    /\ SessionStart
    /\ IsolationIdle
    /\ DecisionIdle
    /\ ToolsIdle

\* ---------------------------------------------------------------- two-track REST
\* POST /session
create_session ==
    /\ origin = "none"
    /\ origin' = "two"
    /\ IF use_celery
         THEN /\ set_job([EmptyJob EXCEPT !.status = "new"])
              /\ UNCHANGED localVars
         ELSE /\ sessions' = "None"
              /\ UNCHANGED <<redis_job, job_status, job_result, job_error, folder_jobs>>
    /\ UNCHANGED <<auxVars, use_celery, pf, fsVars, bg, pipe, celeryVars, streams, histVars>>

\* The session lookup of upload_song_a / upload_song_b (404 otherwise).
UploadAccepted ==
    IF use_celery THEN redis_job # NoJob ELSE sessions # "absent"

\* POST /upload/{id}/a and /b: _save_upload_to_session, then the status write.
\* too_large: the payload exceeds max_upload_mb (400 after the directory was made).
upload_song(label, too_large) ==
    /\ UploadAccepted
    /\ dir_exists' = TRUE
    /\ IF too_large
         THEN UNCHANGED <<files, redis_job, localVars>>
         ELSE /\ files' = files \cup {Song(label)}
              /\ IF use_celery
                   THEN /\ set_job([redis_job EXCEPT !.session_dir = TRUE,
                                                     !.status = "uploading"])
                        /\ UNCHANGED localVars
                   ELSE /\ sessions' = "Path"
                        /\ UNCHANGED <<redis_job, job_status, job_result, job_error,
                                       folder_jobs>>
    /\ UNCHANGED <<auxVars, use_celery, pf, origin, set_content, tracklist_content, bg, pipe,
                   celeryVars, streams, histVars>>

upload_song_a == \E too_large \in BOOLEAN : upload_song(0, too_large)
upload_song_b == \E too_large \in BOOLEAN : upload_song(1, too_large)

\* main._get_two_track_paths: the session directory was found (404 otherwise).
TwoTrackDirFound ==
    IF use_celery
      THEN dir_exists
      ELSE sessions = "Path" /\ dir_exists

\* POST /generate/{id}, the checks before the analysis: 404 from
\* _get_two_track_paths when no session directory is found, 400 when path_a or
\* path_b is None, 200 otherwise (analysis and decision succeeding).
generate_mix_code ==
    IF ~TwoTrackDirFound THEN 404
    ELSE IF Song(0) \notin files \/ Song(1) \notin files THEN 400
    ELSE 200

\* POST /generate/{id}: both songs present, analysis and decision succeeded;
\* writes status processing and adds the background task.
generate_mix ==
    /\ generate_mix_code = 200
    /\ \E i \in 1..MaxRenders :
          /\ bg[i] = "idle"
          /\ \A j \in 1..(i - 1) : bg[j] # "idle"
          /\ bg' = [bg EXCEPT ![i] = "render"]
    /\ IF use_celery
         THEN /\ set_job([EmptyJob EXCEPT !.status = "processing", !.session_dir = TRUE])
              /\ UNCHANGED localVars
         ELSE /\ job_status' = "processing"
              /\ job_result' = "absent"
              /\ job_error' = "none"
              /\ UNCHANGED <<redis_job, sessions, folder_jobs>>
    /\ was_processing' = TRUE
    /\ UNCHANGED <<auxVars, use_celery, pf, origin, fsVars, pipe, celeryVars, streams,
                   downloaded, abandoned, tracklist_served>>

\* render.render_mix(work_dir given): mkdir(work_dir), then the engine reads the
\* inputs and writes the output; it raises when an input is missing or a
\* subprocess fails.  RenderCanSucceed is the first of these.
RenderCanSucceed(inputs) == inputs \subseteq files

\* _run_render_background, render_mix returned: mix.wav is written.
bg_render_ok(i) ==
    /\ bg[i] = "render"
    /\ RenderCanSucceed({Song(0), Song(1)})
    /\ dir_exists' = TRUE
    /\ files' = files \cup {MixWav}
    /\ bg' = [bg EXCEPT ![i] = "rendered"]
    /\ UNCHANGED <<auxVars, use_celery, pf, origin, set_content, tracklist_content, redis_job,
                   localVars, pipe, celeryVars, streams, histVars>>

\* _run_render_background after render_mix returned: the ready payload.
bg_publish_ready(i) ==
    /\ bg[i] = "rendered"
    /\ bg' = [bg EXCEPT ![i] = "idle"]
    /\ IF use_celery
         THEN /\ set_job([EmptyJob EXCEPT !.status = "ready", !.set_path = "mix",
                                          !.session_dir = TRUE])
              /\ UNCHANGED localVars
         ELSE /\ job_status' = "ready"
              /\ job_result' = "mix"
              /\ job_error' = "none"
              /\ UNCHANGED <<redis_job, sessions, folder_jobs>>
    /\ UNCHANGED <<auxVars, use_celery, pf, origin, fsVars, pipe, celeryVars, streams,
                   histVars>>

\* _run_render_background, render_mix raised: except (status failed, the
\* message) and finally (_delete_session_dir).
bg_render_raises(i) ==
    /\ bg[i] = "render"
    /\ bg' = [bg EXCEPT ![i] = "idle"]
    /\ IF use_celery
         THEN /\ set_job([EmptyJob EXCEPT !.status = "failed", !.error = "render error"])
              /\ UNCHANGED localVars
         ELSE /\ job_status' = "failed"
              /\ job_error' = "render error"
              /\ job_result' = "absent"
              /\ UNCHANGED <<redis_job, sessions, folder_jobs>>
    /\ delete_session_dir
    /\ UNCHANGED <<auxVars, use_celery, pf, origin, pipe, celeryVars, streams, histVars>>

run_render_background ==
    \E i \in 1..MaxRenders :
        \/ bg_render_ok(i)
        \/ bg_publish_ready(i)
        \/ bg_render_raises(i)


\* ---------------------------------------------------------------- POST /process-folder
\* The handler is a coroutine: it creates the directory, then awaits and writes
\* one upload at a time, and records the job only after the last one.  The
\* other routes run between its steps.
pfFrame == <<auxVars, use_celery, set_content, tracklist_content, sessions, job_status, job_result,
             job_error, bg, header, seg_state, final, streams, downloaded, abandoned,
             tracklist_served>>

\* len(files) >= 2, the fresh session id and _get_or_create_session_dir.
process_folder_mkdir ==
    /\ origin = "none"
    /\ origin' = "folder"
    /\ \E n \in 2..MaxTracks : pf' = [pc |-> "saving", n |-> n, i |-> 0, saved |-> 0]
    /\ dir_exists' = TRUE
    /\ UNCHANGED <<files, redis_job, folder_jobs, brain, pipe, was_processing>>
    /\ UNCHANGED pfFrame

\* One turn of the loop over the uploads.  named: the upload has a filename
\* (it is skipped otherwise); too_large: it exceeds max_upload_mb (400).
\* write_bytes raises when the directory is gone.
process_folder_save ==
    /\ pf.pc = "saving"
    /\ pf.i < pf.n
    /\ \E named, too_large \in BOOLEAN :
         IF ~named
           THEN /\ pf' = [pf EXCEPT !.i = @ + 1]
                /\ UNCHANGED <<dir_exists, files>>
           ELSE IF too_large
             THEN /\ pf' = [pf EXCEPT !.pc = "rejected"]
                  /\ UNCHANGED <<dir_exists, files>>
             ELSE IF ~dir_exists
               THEN /\ pf' = [pf EXCEPT !.pc = "raised"]
                    /\ UNCHANGED <<dir_exists, files>>
               ELSE /\ pf' = [pf EXCEPT !.i = @ + 1, !.saved = @ + 1]
                    /\ files' = files \cup {Track(pf.i)}
                    /\ UNCHANGED dir_exists
    /\ UNCHANGED <<origin, redis_job, folder_jobs, brain, pipe, was_processing>>
    /\ UNCHANGED pfFrame

\* After the loop: fewer than 2 saved files delete the directory (400);
\* otherwise the job is recorded as processing and the pipeline is started
\* (Celery task or background task).
process_folder_record ==
    /\ pf.pc = "saving"
    /\ pf.i = pf.n
    /\ IF pf.saved < 2
         THEN /\ pf' = [pf EXCEPT !.pc = "rejected"]
              /\ delete_session_dir
              /\ UNCHANGED <<redis_job, folder_jobs, brain, pipe, was_processing>>
         ELSE /\ pf' = [pf EXCEPT !.pc = "done"]
              /\ IF use_celery
                   THEN /\ set_job([EmptyJob EXCEPT !.status = "processing",
                                                    !.phase = "analyzing",
                                                    !.session_dir = TRUE])
                        /\ brain' = [brain EXCEPT !.pc = "queued"]
                        /\ UNCHANGED <<folder_jobs, pipe>>
                   ELSE /\ folder_jobs' = [EmptyJob EXCEPT !.status = "processing",
                                                           !.session_dir = TRUE]
                        /\ pipe' = [pipe EXCEPT !.pc = "queued"]
                        /\ UNCHANGED <<redis_job, brain>>
              /\ was_processing' = TRUE
              /\ UNCHANGED <<dir_exists, files>>
    /\ UNCHANGED <<origin, set_content, tracklist_content>>
    /\ UNCHANGED <<auxVars, use_celery, sessions, job_status, job_result, job_error, bg, header,
                   seg_state, final, streams, downloaded, abandoned, tracklist_served>>

process_folder ==
    \/ process_folder_mkdir
    \/ process_folder_save
    \/ process_folder_record

\* ---------------------------------------------------------------- in-process pipeline
\* set_phase of _run_folder_pipeline: writes only into a processing job.
set_phase(job, phase, current, total) ==
    IF job # NoJob /\ job.status = "processing"
      THEN [job EXCEPT !.phase = phase,
                       !.current_segment = IF current # -1 THEN current ELSE @,
                       !.total_segments = IF total # -1 THEN total ELSE @]
      ELSE job

FailedJob(msg) == [EmptyJob EXCEPT !.status = "failed", !.error = msg]

\* The roadmap positions 0 .. n-1 as a sequence.
Indices(n) == [k \in 1..n |-> k - 1]

pipeFrame == <<auxVars, use_celery, pf, origin, redis_job, sessions, job_status, job_result, job_error,
               bg, celeryVars, streams, histVars>>

\* _run_folder_pipeline up to set_phase("analyzing").
pipe_start ==
    /\ pipe.pc = "queued"
    /\ LET paths == AudioFiles(files) IN
         IF ~dir_exists
           THEN /\ pipe' = [pipe EXCEPT !.pc = "raised"]
                /\ UNCHANGED <<folder_jobs, fsVars>>
         ELSE IF Cardinality(paths) < 2
           THEN /\ folder_jobs' = FailedJob("Need at least 2 tracks")
                /\ delete_session_dir
                /\ pipe' = [pipe EXCEPT !.pc = "done"]
           ELSE /\ folder_jobs' = set_phase(folder_jobs, "analyzing", -1, -1)
                /\ pipe' = [pipe EXCEPT !.pc = "analyze", !.paths = paths]
                /\ UNCHANGED fsVars
    /\ UNCHANGED pipeFrame

\* analyze_tracks (a file that fails analysis is skipped), sort_playlist,
\* build_roadmap: n_ok tracks analysed give n_ok - 1 transitions.
pipe_analyze ==
    /\ pipe.pc = "analyze"
    /\ \E n_ok \in 0..Cardinality(pipe.paths \cap files) :
         IF n_ok < 2
           THEN /\ folder_jobs' = FailedJob("Could not analyze at least 2 tracks")
                /\ delete_session_dir
                /\ pipe' = [pipe EXCEPT !.pc = "done"]
           ELSE /\ folder_jobs' = [set_phase(folder_jobs, "sequencing", -1, -1)
                                     EXCEPT !.total_segments = n_ok - 1]
                /\ pipe' = [pipe EXCEPT !.pc = "loop", !.total = n_ok - 1, !.idx = 0,
                                        !.lines = <<>>, !.segment_paths = <<>>]
                /\ UNCHANGED fsVars
    /\ UNCHANGED pipeFrame

\* One iteration of the roadmap loop: strategy, render_mix into seg_idx.wav,
\* the tracklist block.
pipe_segment ==
    /\ pipe.pc = "loop"
    /\ pipe.idx < pipe.total
    /\ RenderCanSucceed(pipe.paths)
    /\ folder_jobs' = set_phase(folder_jobs, "rendering", pipe.idx + 1, pipe.total)
    /\ dir_exists' = TRUE
    /\ files' = files \cup {Seg(pipe.idx)}
    /\ pipe' = [pipe EXCEPT !.idx = @ + 1,
                            !.segment_paths = Append(@, pipe.idx),
                            !.lines = Append(@, pipe.idx)]
    /\ UNCHANGED <<set_content, tracklist_content>>
    /\ UNCHANGED pipeFrame

\* The concat list, ffmpeg concat, unlink of the segments, tracklist.txt, ready.
pipe_finalize ==
    /\ pipe.pc = "loop"
    /\ pipe.idx = pipe.total
    /\ IF pipe.segment_paths = <<>>
         THEN /\ folder_jobs' = FailedJob("No segments rendered")
              /\ delete_session_dir
         ELSE /\ dir_exists
              /\ {Seg(k) : k \in Range(pipe.segment_paths)} \subseteq files
              /\ set_content' = pipe.segment_paths
              /\ tracklist_content' = pipe.lines
              /\ files' = (files \ ({Seg(k) : k \in Range(pipe.segment_paths)} \cup {ConcatTxt}))
                            \cup {SetFinal, TracklistTxt}
              /\ folder_jobs' = [EmptyJob EXCEPT !.status = "ready", !.set_path = "set_final",
                                                 !.tracklist_path = TRUE, !.session_dir = TRUE]
              /\ UNCHANGED dir_exists
    /\ pipe' = [pipe EXCEPT !.pc = "done"]
    /\ UNCHANGED pipeFrame

\* An exception inside the try block (strategy, render_mix, ffmpeg): except
\* records failed with the message, finally deletes the directory.
pipe_raises ==
    /\ pipe.pc = "loop"
    /\ folder_jobs' = FailedJob("exception")
    /\ delete_session_dir
    /\ pipe' = [pipe EXCEPT !.pc = "raised"]
    /\ UNCHANGED pipeFrame

run_folder_pipeline_local ==
    \/ pipe_start
    \/ pipe_analyze
    \/ pipe_segment
    \/ pipe_finalize
    \/ pipe_raises

\* ---------------------------------------------------------------- Celery tasks
taskFrame == <<auxVars, use_celery, pf, origin, localVars, bg, pipe, streams, histVars>>

\* run_folder_pipeline up to the end of the "analyzing" announcement.
brain_start ==
    /\ brain.pc = "queued"
    /\ IF ~dir_exists
         THEN /\ set_job(FailedJob("Session directory not found"))
              /\ brain' = [brain EXCEPT !.pc = "done"]
         ELSE /\ set_job([EmptyJob EXCEPT !.status = "processing", !.phase = "analyzing",
                                          !.session_dir = TRUE])
              /\ brain' = [brain EXCEPT !.pc = "analyze", !.paths = AudioFiles(files)]
    /\ UNCHANGED <<fsVars, header, seg_state, final>>
    /\ UNCHANGED taskFrame

\* The track count checks and analyze_tracks; ends with phase "sequencing".
brain_analyze ==
    /\ brain.pc = "analyze"
    /\ \E n_ok \in 0..Cardinality(brain.paths \cap files) :
         IF Cardinality(brain.paths) < 2 \/ n_ok < 2
           THEN /\ set_job(FailedJob(IF Cardinality(brain.paths) < 2
                                       THEN "Need at least 2 tracks"
                                       ELSE "Could not analyze at least 2 tracks"))
                /\ delete_session_dir
                /\ brain' = [brain EXCEPT !.pc = "done"]
           ELSE /\ set_job([EmptyJob EXCEPT !.status = "processing", !.phase = "sequencing",
                                            !.session_dir = TRUE])
                /\ brain' = [brain EXCEPT !.pc = "sequence", !.total = n_ok - 1]
                /\ UNCHANGED fsVars
    /\ UNCHANGED <<header, seg_state, final>>
    /\ UNCHANGED taskFrame

\* sort_playlist, build_roadmap, total_segments, phase "rendering".
brain_sequence ==
    /\ brain.pc = "sequence"
    /\ set_job([EmptyJob EXCEPT !.status = "processing", !.phase = "rendering",
                                !.total_segments = brain.total, !.session_dir = TRUE])
    /\ brain' = [brain EXCEPT !.pc = "plan", !.idx = -1, !.lines = <<>>]
    /\ UNCHANGED <<fsVars, header, seg_state, final>>
    /\ UNCHANGED taskFrame

\* One iteration of "for idx, ... in enumerate(roadmap)": metadata, structure,
\* overlays, strategy and the tracklist block of transition idx.
brain_plan ==
    /\ brain.pc = "plan"
    /\ brain.idx + 1 < brain.total
    /\ brain' = [brain EXCEPT !.idx = @ + 1, !.lines = Append(@, brain.idx + 1)]
    /\ UNCHANGED <<fsVars, redis_job, header, seg_state, final>>
    /\ UNCHANGED taskFrame

\* segment_tasks as the task builds it: the append stands after the loop body,
\* so it runs once, with the loop variables of the last iteration.
segment_tasks(total, last_idx) == <<last_idx>>

\* The chord header is dispatched when the brain calls chord(...)(...).
chord_dispatch(tasks) ==
    /\ header' = tasks
    /\ seg_state' = [k \in 1..Len(tasks) |-> "queued"]
    /\ final' = [final EXCEPT !.pc = "waiting"]

\* After the loop: segment_tasks, the tracklist written into the job, the chord.
brain_dispatch ==
    /\ brain.pc = "plan"
    /\ brain.idx + 1 = brain.total
    /\ LET job_state == IF redis_job = NoJob THEN EmptyJob ELSE redis_job IN
         set_job([job_state EXCEPT !.tracklist_lines = brain.lines,
                                   !.total_segments = brain.total,
                                   !.session_dir = TRUE])
    /\ chord_dispatch(segment_tasks(brain.total, brain.idx))
    /\ brain' = [brain EXCEPT !.pc = "done"]
    /\ UNCHANGED fsVars
    /\ UNCHANGED taskFrame

\* An exception inside the try block of run_folder_pipeline (get_audio_metadata,
\* get_mix_strategy, ...): there is no except clause; finally deletes the directory.
brain_raises ==
    /\ brain.pc = "plan"
    /\ delete_session_dir
    /\ brain' = [brain EXCEPT !.pc = "raised"]
    /\ UNCHANGED <<redis_job, header, seg_state, final>>
    /\ UNCHANGED taskFrame

run_folder_pipeline ==
    \/ brain_start
    \/ brain_analyze
    \/ brain_sequence
    \/ brain_plan
    \/ brain_dispatch
    \/ brain_raises

\* render_segment is taken by an audio worker: arguments parsed, progress published.
segment_start(k) ==
    /\ seg_state[k] = "queued"
    /\ seg_state' = [seg_state EXCEPT ![k] = "running"]
    /\ UNCHANGED <<fsVars, redis_job, brain, header, final>>
    /\ UNCHANGED taskFrame

\* render_mix returned: seg_idx.wav is written and its path is the task's result.
segment_ok(k) ==
    /\ seg_state[k] = "running"
    /\ RenderCanSucceed(brain.paths)
    /\ dir_exists' = TRUE
    /\ files' = files \cup {Seg(header[k])}
    /\ seg_state' = [seg_state EXCEPT ![k] = "ok"]
    /\ UNCHANGED <<set_content, tracklist_content, redis_job, brain, header, final>>
    /\ UNCHANGED taskFrame

\* render_mix raised (after its mkdir of work_dir): the task fails; render_segment
\* has no handler and writes nothing.
segment_raises(k) ==
    /\ seg_state[k] = "running"
    /\ dir_exists' = TRUE
    /\ seg_state' = [seg_state EXCEPT ![k] = "failed"]
    /\ UNCHANGED <<files, set_content, tracklist_content, redis_job, brain, header, final>>
    /\ UNCHANGED taskFrame

render_segment ==
    \E k \in 1..Len(header) :
        \/ segment_start(k)
        \/ segment_ok(k)
        \/ segment_raises(k)

\* A chord whose body does not wait for its header.
chord_ready_unsynchronised == TRUE

\* The chord's body is applied once every header task has returned; when a
\* header task raised, the body is never called (the chord errors instead).
chord_ready == \A k \in 1..Len(header) : seg_state[k] = "ok"

\* finalize_set up to the "finalizing" announcement.
finalize_start ==
    /\ final.pc = "waiting"
    /\ chord_ready
    /\ LET job == IF redis_job = NoJob THEN EmptyJob ELSE redis_job IN
         IF ~job.session_dir
           THEN /\ set_job(FailedJob("Session directory not found"))
                /\ final' = [final EXCEPT !.pc = "done"]
           ELSE /\ set_job([EmptyJob EXCEPT !.status = "processing", !.phase = "finalizing",
                                            !.session_dir = TRUE])
                /\ final' = [final EXCEPT !.pc = "concat", !.lines = job.tracklist_lines]
    /\ UNCHANGED <<fsVars, brain, header, seg_state>>
    /\ UNCHANGED taskFrame

\* The segments of the chord result that exist on disk, in result order.
ExistingSegments(results, fs) == SelectSeq(results, LAMBDA k : Seg(k) \in fs)

\* finalize_set: concat list of the existing segments, ffmpeg concat, unlink,
\* tracklist.txt, status ready.
finalize_ok ==
    /\ final.pc = "concat"
    /\ dir_exists
    /\ ExistingSegments(header, files) # <<>>
    /\ set_content' = ExistingSegments(header, files)
    /\ tracklist_content' = final.lines
    /\ files' = (files \ ({Seg(k) : k \in Range(header)} \cup {ConcatTxt}))
                  \cup {SetFinal, TracklistTxt}
    /\ set_job([EmptyJob EXCEPT !.status = "ready", !.set_path = "set_final",
                                !.tracklist_path = TRUE, !.session_dir = TRUE])
    /\ final' = [final EXCEPT !.pc = "done"]
    /\ UNCHANGED <<dir_exists, brain, header, seg_state>>
    /\ UNCHANGED taskFrame

\* finalize_set: open() or ffmpeg raised; there is no except clause; finally
\* deletes the directory.
finalize_raises ==
    /\ final.pc = "concat"
    /\ delete_session_dir
    /\ final' = [final EXCEPT !.pc = "raised"]
    /\ UNCHANGED <<redis_job, brain, header, seg_state>>
    /\ UNCHANGED taskFrame

finalize_set ==
    \/ finalize_start
    \/ finalize_ok
    \/ finalize_raises

\* ---------------------------------------------------------------- status and download
PathOf(set_path) == IF set_path = "mix" THEN MixWav ELSE SetFinal

\* main._folder_job_for: Redis record, else a synthetic "processing" job while
\* the directory exists (use_celery); the in-memory job otherwise.
folder_job_for ==
    IF use_celery
      THEN IF redis_job # NoJob THEN redis_job
           ELSE IF dir_exists
                  THEN [EmptyJob EXCEPT !.status = "processing", !.phase = "analyzing"]
                  ELSE NoJob
      ELSE folder_jobs

\* dict.get("status", "processing")
StatusOf(job) == IF job.status = "none" THEN "processing" ELSE job.status

\* JobStatus = Literal["processing", "ready", "failed"], the type of
\* GenerateStatusResponse.status.
JobStatus == {"processing", "ready", "failed"}

\* GET /generate/{id}/status: <<http code, status, download_url offered>>.
\* GenerateStatusResponse(status=...) raises a validation error for a status
\* outside JobStatus, which the server answers with 500.
get_generate_status ==
    IF use_celery
      THEN IF redis_job = NoJob THEN <<404, "none", FALSE>>
           ELSE IF StatusOf(redis_job) \notin JobStatus THEN <<500, "none", FALSE>>
           ELSE <<200, StatusOf(redis_job), StatusOf(redis_job) = "ready">>
      ELSE IF sessions = "absent" /\ job_status = "absent" THEN <<404, "none", FALSE>>
           ELSE LET status == IF job_status = "absent" THEN "processing" ELSE job_status
                IN  <<200, status, status = "ready">>

\* GET /process-folder/{id}/status: <<http code, status, set_url offered>>.
get_process_folder_status ==
    LET job == folder_job_for IN
      IF job = NoJob THEN <<404, "none", FALSE>>
      ELSE <<200, StatusOf(job), job.status = "ready">>

\* GET /download/{id}: 200 when the job is ready and its file exists, else 404.
download_mix_code ==
    IF use_celery
      THEN IF redis_job = NoJob \/ redis_job.status # "ready" THEN 404
           ELSE IF redis_job.set_path # "none" /\ PathOf(redis_job.set_path) \in files
                  THEN 200 ELSE 404
      ELSE IF job_status # "ready" THEN 404
           ELSE IF job_result # "absent" /\ MixWav \in files THEN 200 ELSE 404

\* GET /process-folder/{id}/set
download_folder_set_code ==
    LET job == folder_job_for IN
      IF job = NoJob \/ job.status # "ready" THEN 404
      ELSE IF job.set_path # "none" /\ PathOf(job.set_path) \in files THEN 200 ELSE 404

\* GET /process-folder/{id}/tracklist
download_folder_tracklist_code ==
    LET job == folder_job_for IN
      IF job = NoJob \/ job.status # "ready" THEN 404
      ELSE IF job.tracklist_path /\ TracklistTxt \in files THEN 200 ELSE 404

streamFrame == <<auxVars, use_celery, pf, origin, redis_job, localVars, bg, pipe, celeryVars,
                 was_processing>>

\* A 200 answer hands a new _stream_file_then_delete generator to the server.
open_stream(path, delete_after) ==
    /\ \E i \in 1..MaxStreams :
          /\ streams[i].pc = "idle"
          /\ \A j \in 1..(i - 1) : streams[j].pc # "idle"
          /\ streams' = [streams EXCEPT ![i] = [pc |-> "created", path |-> path,
                                                delete_after |-> delete_after, pos |-> 0]]
    /\ UNCHANGED <<fsVars, downloaded, abandoned, tracklist_served>>
    /\ UNCHANGED streamFrame

download_mix ==
    /\ download_mix_code = 200
    /\ open_stream(PathOf(IF use_celery THEN redis_job.set_path ELSE "mix"), TRUE)

download_folder_set ==
    /\ download_folder_set_code = 200
    /\ open_stream(PathOf(folder_job_for.set_path), TRUE)

\* A tracklist route that streams the way the set route does.
download_folder_tracklist_deleting ==
    /\ download_folder_tracklist_code = 200
    /\ open_stream(TracklistTxt, TRUE)

download_folder_tracklist ==
    /\ download_folder_tracklist_code = 200
    /\ open_stream(TracklistTxt, FALSE)

\* A finally clause that forgets the completed flag.
stream_finally_unconditional(delete_after, completed) ==
    IF delete_after
      THEN delete_session_dir
      ELSE UNCHANGED fsVars

\* What the finally clause of _stream_file_then_delete does.
stream_finally(delete_after, completed) ==
    IF delete_after /\ completed
      THEN delete_session_dir
      ELSE UNCHANGED fsVars

\* The server asks the generator for the next chunk.  The first request opens
\* the file (it raises if the file is gone); a request past the last chunk reads
\* b"" and leaves the loop with completed = True.
stream_next(i) ==
    LET s == streams[i] IN
    /\ s.pc \in {"created", "reading"}
    /\ IF s.pc = "created" /\ s.path \notin files
         THEN /\ streams' = [streams EXCEPT ![i] = IdleStream]
              /\ stream_finally(s.delete_after, FALSE)
              /\ UNCHANGED <<downloaded, abandoned, tracklist_served>>
         ELSE IF s.pos < NumChunks
           THEN /\ streams' = [streams EXCEPT ![i].pc = "reading", ![i].pos = @ + 1]
                /\ UNCHANGED <<fsVars, downloaded, abandoned, tracklist_served>>
           ELSE /\ streams' = [streams EXCEPT ![i] = IdleStream]
                /\ stream_finally(s.delete_after, TRUE)
                /\ downloaded' = (downloaded \/ s.delete_after)
                /\ tracklist_served' = (tracklist_served \/ s.path = TracklistTxt)
                /\ UNCHANGED abandoned
    /\ UNCHANGED streamFrame

\* The client goes away: the generator is closed at its yield (GeneratorExit),
\* or dropped before its first chunk.
stream_abandon(i) ==
    LET s == streams[i] IN
    /\ s.pc \in {"created", "reading"}
    /\ streams' = [streams EXCEPT ![i] = IdleStream]
    /\ stream_finally(s.delete_after, FALSE)
    /\ abandoned' = TRUE
    /\ UNCHANGED <<downloaded, tracklist_served>>
    /\ UNCHANGED streamFrame

stream_file_then_delete ==
    \E i \in 1..MaxStreams :
        \/ stream_next(i)
        \/ stream_abandon(i)

\* ---------------------------------------------------------------- reaping
\* A sweep that asks _folder_job_for, which answers a synthetic processing job
\* for every directory that exists.
cleanup_removed_by_folder_job ==
    IF ~dir_exists THEN 0
    ELSE IF folder_job_for = NoJob THEN 1 ELSE 0

\* _cleanup_abandoned_sessions for this session: 1 if its directory is removed.
cleanup_removed ==
    IF ~dir_exists THEN 0
    ELSE IF use_celery
           THEN IF redis_job = NoJob THEN 1 ELSE 0
           ELSE IF sessions = "absent" /\ job_status = "absent" /\ folder_jobs = NoJob
                  THEN 1 ELSE 0

\* POST /cleanup
cleanup_abandoned ==
    /\ dir_exists
    /\ IF cleanup_removed = 1 THEN delete_session_dir ELSE UNCHANGED fsVars
    /\ UNCHANGED <<auxVars, use_celery, pf, origin, redis_job, localVars, bg, pipe, celeryVars, streams,
                   histVars>>

\* The Redis key of the job expires (REDIS_TTL_JOB after its last write).
job_expires ==
    /\ use_celery
    /\ redis_job # NoJob
    /\ redis_job' = NoJob
    /\ UNCHANGED <<auxVars, use_celery, pf, origin, fsVars, localVars, bg, pipe, celeryVars, streams,
                   histVars>>

Next ==
    \/ create_session
    \/ upload_song_a
    \/ upload_song_b
    \/ generate_mix
    \/ run_render_background
    \/ process_folder
    \/ run_folder_pipeline_local
    \/ run_folder_pipeline
    \/ render_segment
    \/ finalize_set
    \/ download_mix
    \/ download_folder_set
    \/ download_folder_tracklist
    \/ stream_file_then_delete
    \/ cleanup_abandoned
    \/ job_expires

\* The whole surface on one session id.  The properties below are verified under
\* the two surfaces a client drives a session through: a session made by
\* POST /session (SpecTwoTrack) and one made by POST /process-folder (SpecFolder).
Spec == Init /\ [][Next]_vars

\* The two-track surface: POST /session, uploads, POST /generate, GET /download.
NextTwoTrack ==
    \/ create_session
    \/ upload_song_a
    \/ upload_song_b
    \/ generate_mix
    \/ run_render_background
    \/ download_mix
    \/ stream_file_then_delete
    \/ cleanup_abandoned
    \/ job_expires

SpecTwoTrack == Init /\ [][NextTwoTrack]_vars

\* The multi-track surface: POST /process-folder and its pipeline.
NextFolder ==
    \/ process_folder
    \/ run_folder_pipeline_local
    \/ run_folder_pipeline
    \/ render_segment
    \/ finalize_set
    \/ download_folder_set
    \/ download_folder_tracklist
    \/ stream_file_then_delete
    \/ cleanup_abandoned
    \/ job_expires

SpecFolder == Init /\ [][NextFolder]_vars

\* The multi-track surface with time passing and the sweep being called: a
\* Redis key that is not rewritten reaches its TTL, and POST /cleanup is called
\* again and again.
SpecFolderReaping ==
    /\ Init
    /\ [][NextFolder]_vars
    /\ WF_vars(job_expires)
    /\ WF_vars(cleanup_abandoned)

\* ---------------------------------------------------------------- two sessions
\* The file operations of two session ids side by side.  A path is
\* <<directory, file>>; a file on disk remembers the session that wrote it.
\* main._session_dir: settings.session_root / session_id.
session_dir_shared(session_id) == <<"session_root", 0>>

session_dir(session_id) == <<"session_root", session_id>>

\* tempfile.mkdtemp / TemporaryDirectory: a directory no other call has.
mkdtemp == <<"tmp", temps + 1>>

FilesIn(d) == {f \in disk : f.path[1] = d}
Exists(path) == \E f \in disk : f.path = path

\* The operation of session sid writes (creates or overwrites) the paths in
\* written and then deletes the paths in deleted, some of them in tmp.
file_op(sid, written, deleted, tmp) ==
    LET touched == written \cup deleted IN
    /\ disk' = {f \in disk : f.path \notin touched}
                  \cup {[path |-> q, owner |-> sid] : q \in written \ deleted}
    /\ last_op' = [sid |-> sid, paths |-> touched,
                   hit |-> {f \in disk : f.path \in touched}, tmp |-> tmp]

isoFrame == <<use_celery, origin, pf, fsVars, redis_job, localVars, bg, pipe, celeryVars,
              streams, histVars, decisionVars, toolVars, extraVars>>

\* _save_upload_to_session, then the record of the directory.
save_upload_to_session(sid, label) ==
    LET d == session_dir(sid) IN
    /\ file_op(sid, {<<d, Song(label)>>}, {}, NoDir)
    /\ stored_dir' = [stored_dir EXCEPT ![sid] = d]
    /\ UNCHANGED temps

\* process_folder: a fresh id, track_0 and track_1 written, the directory recorded.
save_folder_uploads(sid) ==
    LET d == session_dir(sid) IN
    /\ stored_dir[sid] = NoDir
    /\ file_op(sid, {<<d, Track(0)>>, <<d, Track(1)>>}, {}, NoDir)
    /\ stored_dir' = [stored_dir EXCEPT ![sid] = d]
    /\ UNCHANGED temps

\* render_mix(work_dir = the recorded directory): a_proc.wav and b_proc.wav are
\* written there and unlinked at the end, the output is written there; cloud
\* overlays are fetched into a mkdtemp directory that is removed afterwards.
render_mix(sid, a, b, out, cloud) ==
    LET d == stored_dir[sid]
        t == IF cloud THEN mkdtemp ELSE NoDir
        proc == {<<d, <<"a_proc", 0>> >>, <<d, <<"b_proc", 0>> >>}
        fetched == IF cloud THEN {<<t, <<"cloud", 0>> >>} ELSE {}
    IN  /\ d # NoDir
        /\ Exists(<<d, a>>) /\ Exists(<<d, b>>)
        /\ cloud => temps < MaxTemps
        /\ file_op(sid, proc \cup fetched \cup {<<d, out>>}, proc \cup fetched, t)
        /\ temps' = IF cloud THEN temps + 1 ELSE temps
        /\ UNCHANGED stored_dir

\* finalize_set: concat.txt, set_final.wav and tracklist.txt are written in the
\* recorded directory; the segment and concat.txt are unlinked.
finalize_files(sid) ==
    LET d == stored_dir[sid] IN
    /\ d # NoDir
    /\ Exists(<<d, Seg(0)>>)
    /\ file_op(sid, {<<d, ConcatTxt>>, <<d, SetFinal>>, <<d, TracklistTxt>>},
                    {<<d, Seg(0)>>, <<d, ConcatTxt>>}, NoDir)
    /\ UNCHANGED <<stored_dir, temps>>

\* A download read to its end: main._delete_session_dir(session_id).
download_completed(sid) ==
    LET d == session_dir(sid) IN
    /\ \E out \in {MixWav, SetFinal} : Exists(<<stored_dir[sid], out>>)
    /\ file_op(sid, {}, {f.path : f \in FilesIn(d)}, NoDir)
    /\ stored_dir' = [stored_dir EXCEPT ![sid] = NoDir]
    /\ UNCHANGED temps

NextIsolation ==
    \E sid \in SessionIds :
        \/ \E label \in 0..1 : save_upload_to_session(sid, label) /\ UNCHANGED isoFrame
        \/ save_folder_uploads(sid) /\ UNCHANGED isoFrame
        \/ \E cloud \in BOOLEAN :
              render_mix(sid, Song(0), Song(1), MixWav, cloud) /\ UNCHANGED isoFrame
        \/ \E cloud \in BOOLEAN :
              render_mix(sid, Track(0), Track(1), Seg(0), cloud) /\ UNCHANGED isoFrame
        \/ finalize_files(sid) /\ UNCHANGED isoFrame
        \/ download_completed(sid) /\ UNCHANGED isoFrame

InitIsolation ==
    /\ use_celery = FALSE
    /\ SessionStart
    /\ IsolationIdle
    /\ DecisionIdle
    /\ ToolsIdle

SpecIsolation == InitIsolation /\ [][NextIsolation]_vars

\* ---------------------------------------------------------------- mix decision
\* decision.get_mix_strategy as a function of its arguments and of what the LLM
\* answers.  Seconds are counted in milliseconds, stretch ratios in thousandths,
\* energy in tenths; a quotient is rounded down to the unit.  Of the strategy
\* the fields kept are the transition fields and the cloud overlay fields.
\* A number the model sent is <<"num", n>>; the other things a JSON value or a
\* missing key can be:
Absent == <<"absent", 0>>
Null   == <<"null", 0>>
NaN    == <<"nan", 0>>
Num(n) == <<"num", n>>
IsNum(v) == v[1] = "num"

\* Python's min(a, b) and max(a, b) on floats: b wins only if the comparison
\* with a is true, and every comparison with NaN is false.
PyMin(a, b) == IF IsNum(a) /\ IsNum(b) /\ b[2] < a[2] THEN b ELSE a
PyMax(a, b) == IF IsNum(a) /\ IsNum(b) /\ b[2] > a[2] THEN b ELSE a

Min2(a, b) == IF b < a THEN b ELSE a
Max2(a, b) == IF b > a THEN b ELSE a
Abs(x) == IF x < 0 THEN -x ELSE x

BEATS_PER_BAR == 4
BARS_PER_PHRASE == 32

\* bars_to_seconds, with the BPM given doubled (an average of two BPMs is a half).
bars_to_seconds(bpm2, bars) ==
    IF bpm2 <= 0 \/ bars <= 0 THEN 0
    ELSE (bars * BEATS_PER_BAR * 60000 * 2) \div bpm2

\* energy_0_1_to_1_10: round(e * 9 + 1) clamped to 1..10, e in tenths.
energy_0_1_to_1_10(energy) ==
    LET e == Max2(0, Min2(10, energy))
    IN  Max2(1, Min2(10, (e * 9 + 10 + 5) \div 10))

\* analysis._phrase_starts_and_outro: a phrase start every 32 bars, the outro at
\* the last two phrases or the last quarter of the track.
phrase_starts_and_outro(bpm, duration_sec) ==
    IF bpm <= 0 \/ duration_sec <= 0
      THEN [phrase_starts_sec |-> <<0>>,
            outro_start_sec |-> Max2(0, duration_sec - 60000)]
      ELSE LET phrase == (BARS_PER_PHRASE * BEATS_PER_BAR * 60000) \div bpm
               n == (duration_sec + phrase - 1) \div phrase
           IN  [phrase_starts_sec |-> [k \in 1..n |-> (k - 1) * phrase],
                outro_start_sec |->
                    Max2(0, duration_sec - Min2(2 * phrase, duration_sec \div 4))]

\* The SongAnalysis of a track of that BPM, duration and energy.
SongAnalysis(bpm, duration_sec, energy) ==
    [bpm |-> bpm, duration_sec |-> duration_sec, energy |-> energy,
     phrase_starts_sec |-> phrase_starts_and_outro(bpm, duration_sec).phrase_starts_sec,
     outro_start_sec |-> phrase_starts_and_outro(bpm, duration_sec).outro_start_sec]

\* style_prompt_to_intent, by the first keyword family the prompt matches.
style_prompt_to_intent(prompt, default_bars) ==
    CASE prompt = "none" ->
           [preferred_transition_bars |-> default_bars, vibe |-> "neutral",
            start_early |-> FALSE, decisive |-> FALSE]
      [] prompt = "cattaneo" ->
           [preferred_transition_bars |-> 64, vibe |-> "cattaneo",
            start_early |-> TRUE, decisive |-> FALSE]
      [] prompt = "anyma" ->
           [preferred_transition_bars |-> 16, vibe |-> "anyma",
            start_early |-> FALSE, decisive |-> TRUE]
      [] prompt = "closing" ->
           [preferred_transition_bars |-> 8, vibe |-> "neutral",
            start_early |-> FALSE, decisive |-> TRUE]
      [] prompt = "warmup" ->
           [preferred_transition_bars |-> 16, vibe |-> "subtle",
            start_early |-> TRUE, decisive |-> FALSE]
      [] prompt = "emotional" ->
           [preferred_transition_bars |-> 16, vibe |-> "emotional",
            start_early |-> TRUE, decisive |-> FALSE]
      [] prompt = "aggressive" ->
           [preferred_transition_bars |-> 4, vibe |-> "aggressive",
            start_early |-> FALSE, decisive |-> TRUE]
      [] OTHER ->
           [preferred_transition_bars |-> 8, vibe |-> "neutral",
            start_early |-> FALSE, decisive |-> FALSE]

\* [p for p in phrase_starts if p <= dur - 1.0 and p >= outro - 30]
valid_phrases(phrase_starts, dur, outro) ==
    SelectSeq(phrase_starts, LAMBDA q : q <= dur - 1000 /\ q >= outro - 30000)

\* min(valid, key=lambda p: abs(p - ta)): the first of the nearest.
nearest(valid, ta) ==
    LET i == CHOOSE i \in 1..Len(valid) :
                 /\ \A j \in 1..Len(valid) : Abs(valid[i] - ta) <= Abs(valid[j] - ta)
                 /\ \A j \in 1..(i - 1) : Abs(valid[j] - ta) > Abs(valid[i] - ta)
    IN  valid[i]

\* round(x, 2) of a number of seconds that is not negative.
round2(ms) == ((ms + 5) \div 10) * 10

\* max(lo, min(hi, v)) without its upper limit.
clamp_no_ceiling(lo, hi, v) == PyMax(Num(lo), v)[2]

\* max(lo, min(hi, v)) as _clamp_strategy writes it for ratios and pitch.
clamp(lo, hi, v) == PyMax(Num(lo), PyMin(Num(hi), v))[2]

TransitionTypes == {"crossfade", "beat_match_crossfade", "drop_swap", "filter_fade"}
BarLengths == {4, 8, 16, 32, 64}

\* What the model left out, with dict.get's default.
get(v, default) == IF v = Absent THEN Num(default) ELSE v

\* float(None) is a TypeError.
floatable(v) == v # Null

\* A strategy field that is None.
None == <<"null", 0>>

\* round(x, 2) of x given in hundredths of a millisecond.
round2c(x) == ((x + 500) \div 1000) * 10

\* default_ratio = 0.8 - 0.6 * aggressiveness, in hundredths; aggressiveness is
\* what get_bass_swap_intensity() returns, in tenths.
default_ratio(aggressiveness) == 80 - 6 * aggressiveness

\* `a or b` takes b when a is None, 0 or "" (or not there at all).
Truthy(v) == v \notin {Absent, Null, Num(0), <<"str", "">>}

\* The clamp of a bass swap the model gave, without its upper limit.
bass_swap_no_ceiling(bass_swap_sec, bass_swap_point, cf, aggressiveness) ==
    LET bsp == IF Truthy(bass_swap_sec) THEN bass_swap_sec ELSE bass_swap_point
    IN  IF IsNum(bsp) THEN round2c(Max2(0, bsp[2] * 100))
        ELSE IF bsp = NaN THEN 0
        ELSE round2c(cf * default_ratio(aggressiveness))

\* _clamp_strategy's bass_swap_sec / bass_swap_point: the model's value
\* (bass_swap_sec or bass_swap_point) clamped to [0, 0.95 * cf], or
\* cf * default_ratio when there is none or float() rejects it; round(bsp, 2).
bass_swap(bass_swap_sec, bass_swap_point, cf, aggressiveness) ==
    LET bsp == IF Truthy(bass_swap_sec) THEN bass_swap_sec ELSE bass_swap_point
    IN  IF IsNum(bsp) THEN round2c(Max2(0, Min2(bsp[2] * 100, cf * 95)))
        ELSE IF bsp = NaN THEN 0
        ELSE round2c(cf * default_ratio(aggressiveness))

\* _heuristic_strategy
heuristic_strategy(analysis_a, analysis_b, intent, aggressiveness) ==
    LET bpm_a == analysis_a.bpm
        bpm_b == analysis_b.bpm
        bpm_diff == IF bpm_b > 0 THEN Abs(bpm_a - bpm_b) ELSE 999
        energy_jump == Abs(energy_0_1_to_1_10(analysis_a.energy)
                           - energy_0_1_to_1_10(analysis_b.energy))
        avg_bpm2 == IF bpm_b > 0 THEN bpm_a + bpm_b ELSE 2 * bpm_a
        bars0 == intent.preferred_transition_bars
        bars1 == IF bars0 > 32 THEN Min2(bars0, 64) ELSE bars0
        bars == IF energy_jump > 3 THEN Min2(bars1, 8) ELSE bars1
        decisive_energy == energy_jump > 3
        max_cf_a == Max2(500, analysis_a.duration_sec - 1000)
        max_cf_b == Max2(500, analysis_b.duration_sec - 1000)
        cf0 == Max2(500, Min2(Min2(Min2(bars_to_seconds(avg_bpm2, bars), max_cf_a),
                                   max_cf_b), 120000))
        cf1 == IF intent.decisive \/ decisive_energy
                 THEN Min2(cf0, bars_to_seconds(avg_bpm2, 8)) ELSE cf0
        beatmatch == bpm_diff < 5 /\ bpm_b > 0
        ratio_b == IF beatmatch
                     THEN Max2(900, Min2(1100, (bpm_a * 1000) \div bpm_b)) ELSE 1000
        bars_before_end == IF intent.start_early THEN 16 ELSE 8
        sec_before_end == bars_to_seconds(2 * bpm_a, bars_before_end)
        ta0 == Max2(0, analysis_a.duration_sec - sec_before_end - cf1 \div 2)
        ta1 == Max2(0, Min2(ta0, analysis_a.duration_sec - cf1 - 500))
        outro_a == IF analysis_a.outro_start_sec # 0 THEN analysis_a.outro_start_sec
                   ELSE analysis_a.duration_sec - 60000
        valid == valid_phrases(analysis_a.phrase_starts_sec, analysis_a.duration_sec,
                               outro_a)
        ta == IF valid # <<>> /\ Abs(nearest(valid, ta1) - ta1) <= 15000
                THEN nearest(valid, ta1) ELSE ta1
        remaining_a == Max2(500, analysis_a.duration_sec - ta - 500)
        crossfade_sec == Max2(500, Min2(cf1, remaining_a))
    IN  [transition_type |-> IF beatmatch THEN "beat_match_crossfade" ELSE "crossfade",
         crossfade_sec |-> crossfade_sec,
         bass_swap_sec |-> round2c(crossfade_sec * default_ratio(aggressiveness)),
         song_a_stretch_ratio |-> 1000,
         song_a_pitch_semitones |-> 0,
         song_a_transition_start_sec |-> Max2(0, ta),
         song_b_stretch_ratio |-> ratio_b,
         song_b_pitch_semitones |-> 0,
         song_b_transition_start_sec |-> 0,
         transition_length_bars |-> Num(bars),
         overlay_instrument_url |-> "null",
         overlay_vocal_url |-> "null",
         overlay_instrument_bpm |-> None,
         overlay_vocal_bpm |-> None]

\* The values _clamp_strategy passes to float() that float() rejects.
clamp_raises(data) ==
    \E v \in {data.song_a_transition_start_sec, data.crossfade_sec,
              data.song_a_stretch_ratio, data.song_b_stretch_ratio,
              data.song_a_pitch_semitones, data.song_b_pitch_semitones} :
        ~floatable(v)

\* _clamp_strategy, for data it does not raise on.
clamp_strategy(data, analysis_a, analysis_b, aggressiveness) ==
    LET dur_a == analysis_a.duration_sec
        dur_b == analysis_b.duration_sec
        ta0 == PyMax(Num(0), PyMin(get(data.song_a_transition_start_sec, 0),
                                   Num(dur_a - 1000)))[2]
        valid == valid_phrases(analysis_a.phrase_starts_sec, dur_a,
                               analysis_a.outro_start_sec)
        ta == IF valid # <<>> THEN nearest(valid, ta0) ELSE ta0
        remaining_a == Max2(500, dur_a - ta - 1000)
        cf == PyMax(Num(500),
                    PyMin(PyMin(PyMin(get(data.crossfade_sec, 8000), Num(remaining_a)),
                                Num(dur_b - 500)), Num(120000)))[2]
        bars == data.transition_length_bars
    IN  [transition_type |-> IF data.transition_type \in TransitionTypes
                               THEN data.transition_type ELSE "beat_match_crossfade",
         crossfade_sec |-> cf,
         bass_swap_sec |-> bass_swap(data.bass_swap_sec, data.bass_swap_point, cf,
                                     aggressiveness),
         song_a_stretch_ratio |-> clamp(500, 2000, get(data.song_a_stretch_ratio, 1000)),
         song_a_pitch_semitones |-> clamp(-12, 12, get(data.song_a_pitch_semitones, 0)),
         song_a_transition_start_sec |-> round2(ta),
         song_b_stretch_ratio |-> clamp(500, 2000, get(data.song_b_stretch_ratio, 1000)),
         song_b_pitch_semitones |-> clamp(-12, 12, get(data.song_b_pitch_semitones, 0)),
         song_b_transition_start_sec |-> 0,
         transition_length_bars |->
             IF IsNum(bars)
               THEN IF bars[2] \in BarLengths THEN bars ELSE Num(8)
               ELSE None,
         overlay_instrument_url |-> data.overlay_instrument_url,
         overlay_vocal_url |-> data.overlay_vocal_url,
         overlay_instrument_bpm |-> data.overlay_instrument_bpm,
         overlay_vocal_bpm |-> data.overlay_vocal_bpm]

\* data.get(key) is truthy: a URL the strategy holds.
HasUrl(url) == url \notin {"absent", "null", ""}

\* by_cat_force[cat]: the entries of the category, in list order.
by_cat(cloud, cat) == SelectSeq(cloud, LAMBDA e : e.category = cat)

\* by_url: the URLs of the candidate list.
by_url(cloud) == {cloud[i].url : i \in 1..Len(cloud)}

\* The two-song rule: with only two songs, the first instrument and the first vocal
\* of the list fill the URLs the model left empty.
force_two_songs(s, cloud, only_two_songs) ==
    LET instruments == by_cat(cloud, "instruments")
        vocals == by_cat(cloud, "vocals")
        force_i == only_two_songs /\ cloud # <<>> /\ ~HasUrl(s.overlay_instrument_url)
                   /\ instruments # <<>>
        force_v == only_two_songs /\ cloud # <<>> /\ ~HasUrl(s.overlay_vocal_url)
                   /\ vocals # <<>>
    IN  [s EXCEPT
           !.overlay_instrument_url = IF force_i THEN instruments[1].url ELSE @,
           !.overlay_instrument_bpm = IF force_i THEN Num(instruments[1].bpm) ELSE @,
           !.overlay_vocal_url = IF force_v THEN vocals[1].url ELSE @,
           !.overlay_vocal_bpm = IF force_v THEN Num(vocals[1].bpm) ELSE @]

\* The check of the URLs: if the list is not empty and the strategy holds a URL, a URL
\* of the list gets the BPM of its entry and any other URL is popped with its BPM.
validate_urls(s, cloud) ==
    IF cloud # <<>> /\ (HasUrl(s.overlay_instrument_url) \/ HasUrl(s.overlay_vocal_url))
      THEN LET bpm_of(url) == (CHOOSE i \in 1..Len(cloud) :
                                  /\ cloud[i].url = url
                                  /\ \A j \in (i + 1)..Len(cloud) : cloud[j].url # url)
               known_i == s.overlay_instrument_url \in by_url(cloud)
               known_v == s.overlay_vocal_url \in by_url(cloud)
           IN  [s EXCEPT
                 !.overlay_instrument_url =
                     IF HasUrl(@) /\ ~known_i THEN "absent" ELSE @,
                 !.overlay_instrument_bpm =
                     IF ~HasUrl(s.overlay_instrument_url) THEN @
                     ELSE IF known_i
                       THEN Num(cloud[bpm_of(s.overlay_instrument_url)].bpm)
                       ELSE Absent,
                 !.overlay_vocal_url =
                     IF HasUrl(@) /\ ~known_v THEN "absent" ELSE @,
                 !.overlay_vocal_bpm =
                     IF ~HasUrl(s.overlay_vocal_url) THEN @
                     ELSE IF known_v
                       THEN Num(cloud[bpm_of(s.overlay_vocal_url)].bpm)
                       ELSE Absent]
      ELSE s

\* MixStrategy(**data): a key that was popped, or null, is None in the strategy.
MixStrategy(s) ==
    [s EXCEPT
       !.overlay_instrument_url = IF @ = "absent" THEN "null" ELSE @,
       !.overlay_vocal_url = IF @ = "absent" THEN "null" ELSE @,
       !.overlay_instrument_bpm = IF @ = Absent THEN None ELSE @,
       !.overlay_vocal_bpm = IF @ = Absent THEN None ELSE @]

Raised(why) == [kind |-> "raised", path |-> why]
Returned(path, strategy) == [kind |-> "returned", path |-> path, strategy |-> strategy]

\* get_mix_strategy.  c.client: an API key is configured; c.llm: the request
\* failed ("fails"), the reply is not JSON ("unparsable"), or it is the JSON
\* object c.data ("json").
get_mix_strategy(c) ==
    LET intent == style_prompt_to_intent(c.dj_style_prompt, c.default_bars)
        bars == c.data.transition_length_bars
        data == IF IsNum(bars) /\ bars[2] \in BarLengths
                  THEN [c.data EXCEPT !.crossfade_sec =
                          Num(Max2(500, Min2(120000,
                              bars_to_seconds(c.analysis_a.bpm + c.analysis_b.bpm,
                                              bars[2]))))]
                  ELSE c.data
    IN  IF ~c.client
          THEN Returned("heuristic",
                        heuristic_strategy(c.analysis_a, c.analysis_b, intent,
                                           c.bass_swap_intensity))
        ELSE IF c.llm = "fails" THEN Raised("chat.completions.create")
        ELSE IF c.llm = "unparsable" THEN Raised("json.loads")
        ELSE IF clamp_raises(data) THEN Raised("float")
        ELSE Returned("llm",
                 MixStrategy(validate_urls(
                     force_two_songs(clamp_strategy(data, c.analysis_a, c.analysis_b,
                                                    c.bass_swap_intensity),
                                     c.cloud_compatible_overlays, c.only_two_songs),
                     c.cloud_compatible_overlays)))

\* ---- the calls examined
DefaultData ==
    [transition_type |-> "absent", transition_length_bars |-> Absent,
     crossfade_sec |-> Absent, bass_swap_sec |-> Absent, bass_swap_point |-> Absent,
     song_a_stretch_ratio |-> Absent, song_b_stretch_ratio |-> Absent,
     song_a_pitch_semitones |-> Absent, song_b_pitch_semitones |-> Absent,
     song_a_transition_start_sec |-> Absent,
     overlay_instrument_url |-> "absent", overlay_vocal_url |-> "absent",
     overlay_instrument_bpm |-> Absent, overlay_vocal_bpm |-> Absent]

DefaultCall ==
    [client |-> TRUE, llm |-> "json", data |-> DefaultData,
     dj_style_prompt |-> "none", default_bars |-> 32, bass_swap_intensity |-> 5,
     analysis_a |-> SongAnalysis(120, 300000, 5),
     analysis_b |-> SongAnalysis(120, 300000, 5),
     cloud_compatible_overlays |-> <<>>, only_two_songs |-> FALSE]

Instrument1 == [url |-> "http://cdn/inst1.wav", category |-> "instruments", bpm |-> 124]
Instrument2 == [url |-> "http://cdn/inst2.wav", category |-> "instruments", bpm |-> 120]
Vocal1      == [url |-> "http://cdn/voc1.wav", category |-> "vocals", bpm |-> 122]

\* None and [] are one and the same to every test of the list.
CloudLists ==
    {<<>>, <<Instrument1>>, <<Vocal1>>, <<Instrument1, Vocal1>>,
     <<Vocal1, Instrument2, Instrument1>>}

ModelUrls == {"absent", "null", "http://cdn/inst1.wav", "http://cdn/voc1.wav",
              "http://elsewhere/x.wav"}

Prompts == {"none", "cattaneo", "anyma", "closing", "warmup", "emotional",
            "aggressive", "other"}

\* Calls without an API key.
HeuristicCalls ==
    {[DefaultCall EXCEPT !.client = FALSE, !.dj_style_prompt = prompt,
                         !.default_bars = default_bars,
                         !.analysis_a = SongAnalysis(bpm[1], dur_a, energy[1]),
                         !.analysis_b = SongAnalysis(bpm[2], dur_b, energy[2]),
                         !.cloud_compatible_overlays = cloud,
                         !.only_two_songs = only_two] :
        prompt \in Prompts, default_bars \in {16, 32, 64},
        bpm \in {<<120, 120>>, <<120, 125>>, <<120, 100>>, <<120, 0>>, <<20, 24>>},
        dur_a \in {30000, 200000, 300000}, dur_b \in {20000, 300000},
        energy \in {<<2, 8>>, <<5, 5>>},
        cloud \in {<<>>, <<Instrument1, Vocal1>>}, only_two \in BOOLEAN}

\* Calls whose model output varies in the transition fields.
ClampCalls ==
    {[DefaultCall EXCEPT !.llm = llm,
                         !.data = [DefaultData EXCEPT
                             !.transition_length_bars = bars,
                             !.transition_type = type,
                             !.song_a_stretch_ratio = stretch,
                             !.song_b_stretch_ratio = stretch_b,
                             !.song_a_pitch_semitones = pitch,
                             !.song_b_pitch_semitones = pitch_b]] :
        llm \in {"fails", "unparsable", "json"},
        bars \in {Absent, Null, Num(4), Num(8), Num(16), Num(32), Num(64), Num(7), Num(128)},
        type \in TransitionTypes \cup {"absent", "null", "scratch"},
        stretch \in {Absent, Null, NaN, Num(300), Num(1000), Num(2500)},
        stretch_b \in {Absent, Num(2500)},
        pitch \in {Absent, NaN, Num(-20), Num(0), Num(15)},
        pitch_b \in {Absent, Num(-20)}}

\* Calls whose model output varies in the cloud overlay URLs.
OverlayCalls ==
    {[DefaultCall EXCEPT !.cloud_compatible_overlays = cloud,
                         !.only_two_songs = only_two,
                         !.data = [DefaultData EXCEPT
                             !.overlay_instrument_url = url_i,
                             !.overlay_vocal_url = url_v,
                             !.overlay_instrument_bpm =
                                 IF HasUrl(url_i) THEN Num(128) ELSE Absent,
                             !.overlay_vocal_bpm =
                                 IF HasUrl(url_v) THEN Num(128) ELSE Absent]] :
        cloud \in CloudLists, only_two \in BOOLEAN,
        url_i \in ModelUrls, url_v \in ModelUrls}

\* Calls whose track A and proposed transition start vary.
PhraseCalls ==
    {[DefaultCall EXCEPT !.client = client,
                         !.analysis_a = SongAnalysis(bpm, dur_a, 5),
                         !.data = [DefaultData EXCEPT
                             !.song_a_transition_start_sec = ta]] :
        client \in BOOLEAN, bpm \in {100, 120}, dur_a \in {30000, 200000, 300000, 320000},
        ta \in {Absent, NaN, Num(0), Num(123456), Num(250000), Num(999999)}}

\* Calls whose crossfade, bass swap and admin bass-swap intensity vary.
BassCalls ==
    {[DefaultCall EXCEPT !.client = client,
                         !.bass_swap_intensity = aggressiveness,
                         !.dj_style_prompt = prompt,
                         !.analysis_a = SongAnalysis(bpm, 300000, 5),
                         !.analysis_b = SongAnalysis(bpm, 300000, 5),
                         !.data = [DefaultData EXCEPT
                             !.crossfade_sec = cf,
                             !.bass_swap_sec = sec,
                             !.bass_swap_point = point]] :
        client \in BOOLEAN, aggressiveness \in {0, 3, 5, 10},
        prompt \in {"none", "aggressive"}, bpm \in {120, 125},
        cf \in {Absent, NaN, Num(500), Num(7680), Num(10000)},
        sec \in {Absent, Null, NaN, <<"str", "late">>, Num(0), Num(-1000), Num(2000),
                 Num(9500), Num(60000)},
        point \in {Absent, Num(0), Num(3000)}}

decisionFrame == <<use_celery, origin, pf, fsVars, redis_job, localVars, bg, pipe,
                   celeryVars, streams, histVars, isolationVars, toolVars, extraVars>>

\* One call of get_mix_strategy returns or raises.
call_get_mix_strategy ==
    /\ ret = Pending
    /\ ret' = get_mix_strategy(call)
    /\ UNCHANGED call
    /\ UNCHANGED decisionFrame

NextDecision == call_get_mix_strategy

InitDecision ==
    /\ use_celery = FALSE
    /\ SessionStart
    /\ IsolationIdle
    /\ ToolsIdle
    /\ call \in HeuristicCalls \cup ClampCalls \cup OverlayCalls \cup PhraseCalls
                \cup BassCalls
    /\ ret = Pending

SpecDecision == InitDecision /\ [][NextDecision]_vars

\* ---------------------------------------------------------------- sequencer
\* sequencer.sort_playlist, sequencer.build_roadmap and
\* analysis.harmonic_distance_camelot.  A Camelot code is the string the
\* analysis holds, a sequence of characters; None and "" are <<>>.
Digits == {"0", "1", "2", "3", "4", "5", "6", "7", "8", "9"}
DigitValue(c) ==
    CASE c = "0" -> 0 [] c = "1" -> 1 [] c = "2" -> 2 [] c = "3" -> 3 [] c = "4" -> 4
      [] c = "5" -> 5 [] c = "6" -> 6 [] c = "7" -> 7 [] c = "8" -> 8 [] c = "9" -> 9

\* str.strip(): leading and trailing blanks removed.
RECURSIVE strip(_)
strip(text) ==
    IF text = <<>> THEN text
    ELSE IF Head(text) = " " THEN strip(Tail(text))
    ELSE IF text[Len(text)] = " " THEN strip(SubSeq(text, 1, Len(text) - 1))
    ELSE text

\* str.upper()
upper(text) ==
    [i \in 1..Len(text) |->
        CASE text[i] = "a" -> "A" [] text[i] = "b" -> "B" [] OTHER -> text[i]]

\* int(text) raises ValueError: after its own strip, text is not a run of digits.
int_raises(text) ==
    LET t == strip(text)
    IN  t = <<>> \/ \E i \in 1..Len(t) : t[i] \notin Digits

\* int(text) of a text it does not raise on.
RECURSIVE digits_value(_)
digits_value(t) ==
    IF t = <<>> THEN 0
    ELSE 10 * digits_value(SubSeq(t, 1, Len(t) - 1)) + DigitValue(t[Len(t)])

int(text) == digits_value(strip(text))

\* The distance without the wrap around the wheel.
harmonic_distance_linear(camelot_a, camelot_b) ==
    IF camelot_a = <<>> \/ camelot_b = <<>> THEN 6
    ELSE LET a == upper(strip(camelot_a))
             b == upper(strip(camelot_b))
             text_a == SubSeq(a, 1, Len(a) - 1)
             text_b == SubSeq(b, 1, Len(b) - 1)
         IN  IF int_raises(text_a) \/ int_raises(text_b) THEN 6
             ELSE IF int(text_a) = int(text_b) THEN 0
             ELSE Abs(int(text_a) - int(text_b))

\* analysis.harmonic_distance_camelot
harmonic_distance_camelot(camelot_a, camelot_b) ==
    IF camelot_a = <<>> \/ camelot_b = <<>> THEN 6
    ELSE LET a == upper(strip(camelot_a))
             b == upper(strip(camelot_b))
             text_a == SubSeq(a, 1, Len(a) - 1)
             text_b == SubSeq(b, 1, Len(b) - 1)
         IN  IF int_raises(text_a) \/ int_raises(text_b) THEN 6
             ELSE IF int(text_a) = int(text_b) THEN 0
             ELSE Min2(Abs(int(text_a) - int(text_b)),
                       12 - Abs(int(text_a) - int(text_b)))

\* sorted(analyzed, key=bpm, reverse=not ascending): a stable sort, also when
\* reversed (equal BPMs keep the order they came in).
RECURSIVE sorted_by_bpm(_, _)
sorted_by_bpm(analyzed, ascending) ==
    IF analyzed = <<>> THEN <<>>
    ELSE LET x == analyzed[Len(analyzed)]
             before == sorted_by_bpm(SubSeq(analyzed, 1, Len(analyzed) - 1), ascending)
             stays(y) == IF ascending THEN y.bpm <= x.bpm ELSE y.bpm >= x.bpm
         IN  SelectSeq(before, stays) \o <<x>>
                \o SelectSeq(before, LAMBDA y : ~stays(y))

\* An inner loop that keeps the last candidate of minimum distance, whatever
\* its BPM.
RECURSIVE best_index_last_of_ties(_, _, _, _, _, _)
best_index_last_of_ties(last, remaining, i, best_idx, best_dist, best_bpm_diff) ==
    IF i > Len(remaining) THEN best_idx
    ELSE LET dist == harmonic_distance_camelot(last.key_camelot, remaining[i].key_camelot)
         IN  IF dist <= best_dist
               THEN best_index_last_of_ties(last, remaining, i + 1, i, dist, best_bpm_diff)
               ELSE best_index_last_of_ties(last, remaining, i + 1, best_idx, best_dist,
                                            best_bpm_diff)

\* The inner for loop of sort_playlist: the index (from 1) of the candidate kept.
RECURSIVE best_index(_, _, _, _, _, _)
best_index(last, remaining, i, best_idx, best_dist, best_bpm_diff) ==
    IF i > Len(remaining) THEN best_idx
    ELSE LET dist == harmonic_distance_camelot(last.key_camelot, remaining[i].key_camelot)
             bpm_diff == Abs(remaining[i].bpm - last.bpm)
         IN  IF dist < best_dist \/ (dist = best_dist /\ bpm_diff < best_bpm_diff)
               THEN best_index(last, remaining, i + 1, i, dist, bpm_diff)
               ELSE best_index(last, remaining, i + 1, best_idx, best_dist, best_bpm_diff)

Without(s, i) == SubSeq(s, 1, i - 1) \o SubSeq(s, i + 1, Len(s))

\* The while loop of sort_playlist.
RECURSIVE greedy(_, _)
greedy(ordered, remaining) ==
    IF remaining = <<>> THEN ordered
    ELSE LET k == best_index(ordered[Len(ordered)], remaining, 1, 1, 10, 999)
         IN  greedy(Append(ordered, remaining[k]), Without(remaining, k))

\* sort_playlist without the greedy pass on the Camelot distance.
sort_playlist_bpm_only(analyzed, energy_curve_ascending) ==
    sorted_by_bpm(analyzed, energy_curve_ascending)

\* sort_playlist
sort_playlist(analyzed, energy_curve_ascending) ==
    IF Len(analyzed) <= 1 THEN analyzed
    ELSE LET s == sorted_by_bpm(analyzed, energy_curve_ascending)
         IN  greedy(<<Head(s)>>, Tail(s))

\* build_roadmap that pairs every track with its follower, the last with none.
build_roadmap_one_per_track(ordered) ==
    [i \in 1..Len(ordered) |->
        [path_a |-> ordered[i].path,
         path_b |-> IF i < Len(ordered) THEN ordered[i + 1].path ELSE "none",
         analysis_a |-> ordered[i],
         analysis_b |-> IF i < Len(ordered) THEN ordered[i + 1] ELSE ordered[i]]]

\* build_roadmap
build_roadmap(ordered) ==
    [i \in 1..(Len(ordered) - 1) |->
        [path_a |-> ordered[i].path, path_b |-> ordered[i + 1].path,
         analysis_a |-> ordered[i], analysis_b |-> ordered[i + 1]]]

\* ---- the calls examined
Code(n, letter) ==
    (IF n >= 10 THEN <<"1">> ELSE <<>>)
       \o << CHOOSE c \in Digits : DigitValue(c) = n % 10 >> \o <<letter>>

\* 1A..12A, 1B..12B
ValidCodes == {Code(n, letter) : n \in 1..12, letter \in {"A", "B"}}

\* What key_camelot is when there is none.
MissingCode == <<>>

\* Strings that are not a number followed by a letter.
UnparseableCodes == {<<"X">>, <<"8">>, <<"A", "8">>, <<"A", "B">>, <<" ">>, <<"?", "A">>}

AnalyzedTrack(path, bpm, camelot) == [path |-> path, bpm |-> bpm, key_camelot |-> camelot]

\* The five tracks of the worked example, in upload order.
ExampleTracks ==
    << AnalyzedTrack("t1", 120, Code(8, "A")), AnalyzedTrack("t2", 128, Code(8, "A")),
       AnalyzedTrack("t3", 124, Code(5, "A")), AnalyzedTrack("t4", 130, Code(9, "A")),
       AnalyzedTrack("t5", 122, Code(8, "B")) >>

\* Tracks to build other playlists from: equal BPMs, a key that is missing.
TrackPool ==
    { AnalyzedTrack("p1", 120, Code(8, "A")), AnalyzedTrack("p2", 120, Code(3, "B")),
      AnalyzedTrack("p3", 126, Code(9, "A")), AnalyzedTrack("p4", 124, MissingCode) }

\* The lists of up to MaxPlaylist different tracks of the pool.
Playlists ==
    UNION {{l \in [1..n -> TrackPool] : \A i, j \in 1..n : i # j => l[i] # l[j]} :
              n \in 0..MaxPlaylist}

SequencerCall(pc, analyzed, ascending, a, b) ==
    [pc |-> pc, analyzed |-> analyzed, ascending |-> ascending,
     camelot_a |-> a, camelot_b |-> b,
     ordered |-> <<>>, roadmap |-> <<>>, dist |-> -1]

seqFrame == <<use_celery, origin, pf, fsVars, redis_job, localVars, bg, pipe,
              celeryVars, streams, histVars, isolationVars, decisionVars, rm, adm, extraVars>>

\* harmonic_distance_camelot(camelot_a, camelot_b) returns.
call_harmonic_distance_camelot ==
    /\ seq.pc = "codes"
    /\ seq' = [seq EXCEPT !.pc = "distance",
                          !.dist = harmonic_distance_camelot(seq.camelot_a, seq.camelot_b)]
    /\ UNCHANGED seqFrame

\* sort_playlist(analyzed, energy_curve_ascending) returns.
call_sort_playlist ==
    /\ seq.pc = "analyzed"
    /\ seq' = [seq EXCEPT !.pc = "sorted",
                          !.ordered = sort_playlist(seq.analyzed, seq.ascending)]
    /\ UNCHANGED seqFrame

\* build_roadmap(ordered) returns.
call_build_roadmap ==
    /\ seq.pc = "sorted"
    /\ seq' = [seq EXCEPT !.pc = "roadmap", !.roadmap = build_roadmap(seq.ordered)]
    /\ UNCHANGED seqFrame

NextSequencer ==
    \/ call_harmonic_distance_camelot
    \/ call_sort_playlist
    \/ call_build_roadmap

InitSequencer ==
    /\ use_celery = FALSE
    /\ SessionStart
    /\ IsolationIdle
    /\ DecisionIdle
    /\ rm = NoRender
    /\ adm = NoAdmin
    /\ ExtraIdle
    /\ \/ \E analyzed \in Playlists \cup {ExampleTracks}, ascending \in BOOLEAN :
             seq = SequencerCall("analyzed", analyzed, ascending, <<>>, <<>>)
       \/ \E a, b \in ValidCodes \cup UnparseableCodes \cup {MissingCode} :
             seq = SequencerCall("codes", <<>>, TRUE, a, b)

SpecSequencer == InitSequencer /\ [][NextSequencer]_vars

\* ---------------------------------------------------------------- admin config
\* admin_config: the JSON file config/admin_config.json, its mirror in Redis
\* (written and preferred only when settings.use_celery), the module global
\* _CACHE, and the handlers of GET and POST /admin/config, which FastAPI runs
\* in threads.  A slider is counted in tenths.
ConfigKeys == {"system_prompt", "mix_sensitivity", "default_bars",
               "bass_swap_intensity", "presets", "allow_instruments_ai",
               "allow_vocals_ai"}

\* _default_config
default_config ==
    [system_prompt |-> "DEFAULT_SYSTEM_PROMPT", mix_sensitivity |-> 5,
     default_bars |-> 32, bass_swap_intensity |-> 5, presets |-> <<>>,
     allow_instruments_ai |-> FALSE, allow_vocals_ai |-> FALSE]

\* out = _default_config(); out.update({k: v for k, v in data.items() if k in out})
recognized(data) ==
    [k \in ConfigKeys |-> IF k \in DOMAIN data THEN data[k] ELSE default_config[k]]

\* The file: it is not there, it holds a JSON object, or it holds something
\* json.load rejects (it was opened for writing and not yet written to its
\* end, or it is damaged).
FileMissing == [state |-> "missing", data |-> <<>>]
FileUnparsable == [state |-> "unparsable", data |-> <<>>]
FileJson(data) == [state |-> "json", data |-> data]

\* open(path, "w"): the file exists and is empty.
open_w == FileUnparsable

\* json.dump(data, f) followed by the close of the file.
json_dump(data) == FileJson(data)

\* The part of _load_raw that reads the file: no file, or a file json.load
\* rejects, gives the defaults.
load_file(file) ==
    IF file.state = "json" THEN recognized(file.data) ELSE default_config

\* max(0.0, min(1.0, float(v)))
clamp01(v) == Max2(0, Min2(10, v))

\* An argument of set_admin_config that is None.
Omitted == <<"omitted">>
Given(v) == <<"given", v>>

\* The assignments of set_admin_config that replace a field by the argument
\* as it came, without clamping it.
apply_raw(data, args) ==
    [k \in ConfigKeys |-> IF args[k] = Omitted THEN data[k] ELSE args[k][2]]

\* The assignments of set_admin_config: a field that is given is clamped and
\* stored, a field that is None is left as it was.
apply(data, args) ==
    [k \in ConfigKeys |->
        IF args[k] = Omitted THEN data[k]
        ELSE CASE k \in {"mix_sensitivity", "bass_swap_intensity"} -> clamp01(args[k][2])
               [] k = "default_bars" ->
                    IF args[k][2] \in {16, 32, 64} THEN args[k][2] ELSE 32
               [] OTHER -> args[k][2]]

\* ---- the calls examined
NoArgs == [k \in ConfigKeys |-> Omitted]

\* Bodies of POST /admin/config: none of the fields, one of them, several.
Bodies ==
    {NoArgs}
    \cup {[NoArgs EXCEPT !.system_prompt = Given(v)] : v \in {"custom", ""}}
    \cup {[NoArgs EXCEPT !.mix_sensitivity = Given(v)] : v \in {-3, 7, 15}}
    \cup {[NoArgs EXCEPT !.default_bars = Given(v)] : v \in {16, 48, 64}}
    \cup {[NoArgs EXCEPT !.bass_swap_intensity = Given(v)] : v \in {0, 12}}
    \cup {[NoArgs EXCEPT !.presets = Given(v)] : v \in {<<>>, <<"preset1">>}}
    \cup {[NoArgs EXCEPT !.allow_instruments_ai = Given(v)] : v \in BOOLEAN}
    \cup {[NoArgs EXCEPT !.allow_vocals_ai = Given(v)] : v \in BOOLEAN}
    \cup {[NoArgs EXCEPT !.mix_sensitivity = Given(2), !.default_bars = Given(64),
                         !.allow_vocals_ai = Given(TRUE)]}

\* A file an earlier version wrote: some keys only, and one no longer known.
StoredData ==
    [system_prompt |-> "stored", mix_sensitivity |-> 8, default_bars |-> 16,
     legacy |-> TRUE]

IdleHandler == [pc |-> "idle", data |-> default_config, out |-> default_config,
                args |-> NoArgs, result |-> default_config]

AdminStart(overlap, file, redis) ==
    [pc |-> "run", overlap |-> overlap, file |-> file, redis |-> redis,
     cache |-> <<>>, get |-> IdleHandler, post |-> IdleHandler,
     posts |-> 0, gets |-> 0, before |-> default_config, complete |-> {}]

\* The configuration the next _load_raw returns if nothing else runs.
current ==
    IF use_celery /\ adm.redis # <<>> THEN recognized(adm.redis[1])
    ELSE load_file(adm.file)

admFrame == <<origin, pf, fsVars, redis_job, localVars, bg, pipe,
              celeryVars, streams, histVars, isolationVars, decisionVars, seq, rm, extraVars>>

Handlers == {"get", "post"}
MayStart == adm.overlap \/ \A h \in Handlers : adm[h].pc \in {"idle", "done"}

\* GET /admin/config is called: get_admin_config() -> _load_raw().
admin_get_config ==
    /\ adm.pc = "run" /\ MayStart
    /\ adm.get.pc \in {"idle", "done"}
    /\ adm.gets < MaxGets
    /\ adm' = [adm EXCEPT !.get = [IdleHandler EXCEPT !.pc = "load"],
                          !.gets = @ + 1]
    /\ UNCHANGED <<use_celery, admFrame>>

\* POST /admin/config is called: set_admin_config(**body) -> _load_raw().
admin_post_config ==
    /\ adm.pc = "run" /\ MayStart
    /\ adm.post.pc \in {"idle", "done"}
    /\ adm.posts < MaxPosts
    /\ \E body \in Bodies :
          adm' = [adm EXCEPT !.post = [IdleHandler EXCEPT !.pc = "load", !.args = body],
                             !.posts = @ + 1,
                             !.before = current,
                             !.complete = @ \cup {current}]
    /\ UNCHANGED <<use_celery, admFrame>>

\* _load_raw up to `_CACHE = out`: the Redis mirror if there is one, else the
\* file.  pc "load" is the _load_raw that opens a handler, "reload" the
\* get_admin_config() that ends POST /admin/config.
load_raw(h) ==
    /\ adm.pc = "run"
    /\ adm[h].pc \in {"load", "reload"}
    /\ LET from_redis == use_celery /\ adm.redis # <<>>
           out == IF from_redis THEN recognized(adm.redis[1]) ELSE load_file(adm.file)
           mirror == use_celery /\ ~from_redis /\ adm.file.state = "json"
       IN  adm' = [adm EXCEPT ![h].out = out,
                              ![h].pc = IF mirror THEN adm[h].pc \o "_mirror"
                                        ELSE adm[h].pc \o "_return",
                              !.cache = <<out>>]
    /\ UNCHANGED <<use_celery, admFrame>>

\* _load_raw: set_admin_config_json(json.dumps(out)) after the file was read.
load_raw_mirror(h) ==
    /\ adm.pc = "run"
    /\ adm[h].pc \in {"load_mirror", "reload_mirror"}
    /\ adm' = [adm EXCEPT !.redis = <<adm[h].out>>,
                          ![h].pc = IF adm[h].pc = "load_mirror" THEN "load_return"
                                    ELSE "reload_return"]
    /\ UNCHANGED <<use_celery, admFrame>>

\* _load_raw: `return _CACHE`, the global whichever thread assigned it last.
load_raw_return(h) ==
    /\ adm.pc = "run"
    /\ adm[h].pc \in {"load_return", "reload_return"}
    /\ adm' = [adm EXCEPT
                 ![h].data = adm.cache[1],
                 ![h].result = IF h = "get" \/ adm[h].pc = "reload_return"
                                 THEN adm.cache[1] ELSE @,
                 ![h].pc = IF h = "get" \/ adm[h].pc = "reload_return"
                             THEN "done" ELSE "save"]
    /\ UNCHANGED <<use_celery, admFrame>>

\* set_admin_config: the fields are applied; _save_raw opens the file for writing.
save_raw_open ==
    /\ adm.pc = "run"
    /\ adm.post.pc = "save"
    /\ adm' = [adm EXCEPT !.post.data = apply(adm.post.data, adm.post.args),
                          !.post.pc = "dump",
                          !.file = open_w]
    /\ UNCHANGED <<use_celery, admFrame>>

\* _save_raw: json.dump, the file is closed, `_CACHE = data`.
save_raw_dump ==
    /\ adm.pc = "run"
    /\ adm.post.pc = "dump"
    /\ adm' = [adm EXCEPT !.file = json_dump(adm.post.data),
                          !.cache = <<adm.post.data>>,
                          !.complete = @ \cup {adm.post.data},
                          !.post.pc = IF use_celery THEN "mirror" ELSE "reload"]
    /\ UNCHANGED <<use_celery, admFrame>>

\* _save_raw: set_admin_config_json(json.dumps(data)).
save_raw_mirror ==
    /\ adm.pc = "run"
    /\ adm.post.pc = "mirror"
    /\ adm' = [adm EXCEPT !.redis = <<adm.post.data>>, !.post.pc = "reload"]
    /\ UNCHANGED <<use_celery, admFrame>>

NextAdmin ==
    \/ admin_get_config
    \/ admin_post_config
    \/ \E h \in Handlers : load_raw(h)
    \/ \E h \in Handlers : load_raw_mirror(h)
    \/ \E h \in Handlers : load_raw_return(h)
    \/ save_raw_open
    \/ save_raw_dump
    \/ save_raw_mirror

InitAdminWith(overlap) ==
    /\ use_celery \in BOOLEAN
    /\ SessionStart
    /\ IsolationIdle
    /\ DecisionIdle
    /\ seq = NoSequencerCall
    /\ rm = NoRender
    /\ ExtraIdle
    /\ \E file \in {FileMissing, FileUnparsable, FileJson(StoredData)},
          redis \in {<<>>, <<StoredData>>} :
          /\ redis # <<>> => use_celery
          /\ adm = AdminStart(overlap, file, redis)

\* The handlers one after the other.
InitAdmin == InitAdminWith(FALSE)
SpecAdmin == InitAdmin /\ [][NextAdmin]_vars

\* The handlers in threads that overlap.
InitAdminThreads == InitAdminWith(TRUE)
SpecAdminThreads == InitAdminThreads /\ [][NextAdmin]_vars

\* ---------------------------------------------------------------- two POST /admin/config
\* Two POST /admin/config handlers in threads that overlap.  The dicts that
\* _load_raw builds are objects: _CACHE and the `data` of a handler refer to
\* one of them, and set_admin_config changes the dict it was handed in place.
\* Dict p is the one handler p builds on entry, dict p + 2 the one its closing
\* get_admin_config() builds.
Posters == {1, 2}

\* The field each request sets, and the value it sends.
FieldUpdates ==
    {<<"mix_sensitivity", 7>>, <<"default_bars", 64>>, <<"bass_swap_intensity", 2>>}

BodyOf(update) == [NoArgs EXCEPT ![update[1]] = Given(update[2])]

IdlePoster == [pc |-> "load", data |-> 0, update |-> <<"none", 0>>]

\* _load_raw up to `_CACHE = out` in a handler p that has reached it.
two_load_raw(p, dict) ==
    LET from_redis == use_celery /\ adm.redis # <<>>
        out == IF from_redis THEN recognized(adm.redis[1]) ELSE load_file(adm.file)
        mirror == use_celery /\ ~from_redis /\ adm.file.state = "json"
    IN  adm' = [adm EXCEPT !.dicts[dict] = out,
                           !.cache = dict,
                           !.poster[p].pc = IF mirror THEN adm.poster[p].pc \o "_mirror"
                                            ELSE adm.poster[p].pc \o "_return"]

\* set_admin_config: data = _load_raw(), up to `_CACHE = out`.
two_load(p) ==
    /\ adm.pc = "posts"
    /\ adm.poster[p].pc = "load"
    /\ two_load_raw(p, p)
    /\ UNCHANGED <<use_celery, admFrame>>

\* _load_raw: set_admin_config_json(json.dumps(out)) after the file was read.
two_load_mirror(p) ==
    /\ adm.pc = "posts"
    /\ adm.poster[p].pc \in {"load_mirror", "reload_mirror"}
    /\ adm' = [adm EXCEPT
                 !.redis = <<adm.dicts[IF adm.poster[p].pc = "load_mirror"
                                         THEN p ELSE p + 2]>>,
                 !.poster[p].pc = IF adm.poster[p].pc = "load_mirror"
                                    THEN "load_return" ELSE "reload_return"]
    /\ UNCHANGED <<use_celery, admFrame>>

\* _load_raw: `return _CACHE`, the dict whichever thread assigned last.
two_load_return(p) ==
    /\ adm.pc = "posts"
    /\ adm.poster[p].pc = "load_return"
    /\ adm' = [adm EXCEPT !.poster[p].data = adm.cache, !.poster[p].pc = "apply"]
    /\ UNCHANGED <<use_celery, admFrame>>

\* set_admin_config: the assignments into data, then _save_raw opens the file
\* for writing.
two_apply_open(p) ==
    /\ adm.pc = "posts"
    /\ adm.poster[p].pc = "apply"
    /\ LET d == adm.poster[p].data IN
       adm' = [adm EXCEPT !.dicts[d] = apply(adm.dicts[d], BodyOf(adm.poster[p].update)),
                          !.file = open_w,
                          !.poster[p].pc = "dump"]
    /\ UNCHANGED <<use_celery, admFrame>>

\* _save_raw: json.dump of data as it is by now, the file is closed, `_CACHE = data`.
two_dump(p) ==
    /\ adm.pc = "posts"
    /\ adm.poster[p].pc = "dump"
    /\ adm' = [adm EXCEPT !.file = json_dump(adm.dicts[adm.poster[p].data]),
                          !.cache = adm.poster[p].data,
                          !.poster[p].pc = IF use_celery THEN "mirror" ELSE "reload"]
    /\ UNCHANGED <<use_celery, admFrame>>

\* _save_raw: set_admin_config_json(json.dumps(data)).
two_mirror(p) ==
    /\ adm.pc = "posts"
    /\ adm.poster[p].pc = "mirror"
    /\ adm' = [adm EXCEPT !.redis = <<adm.dicts[adm.poster[p].data]>>,
                          !.poster[p].pc = "reload"]
    /\ UNCHANGED <<use_celery, admFrame>>

\* admin_post_config: return get_admin_config(), up to `_CACHE = out`.
two_reload(p) ==
    /\ adm.pc = "posts"
    /\ adm.poster[p].pc = "reload"
    /\ two_load_raw(p, p + 2)
    /\ UNCHANGED <<use_celery, admFrame>>

\* The closing get_admin_config() returns; the handler answers.
two_reload_return(p) ==
    /\ adm.pc = "posts"
    /\ adm.poster[p].pc = "reload_return"
    /\ adm' = [adm EXCEPT !.poster[p].pc = "done"]
    /\ UNCHANGED <<use_celery, admFrame>>

NextTwoPosts ==
    \E p \in Posters :
        \/ two_load(p)
        \/ two_load_mirror(p)
        \/ two_load_return(p)
        \/ two_apply_open(p)
        \/ two_dump(p)
        \/ two_mirror(p)
        \/ two_reload(p)
        \/ two_reload_return(p)

InitTwoPosts ==
    /\ use_celery \in BOOLEAN
    /\ SessionStart
    /\ IsolationIdle
    /\ DecisionIdle
    /\ seq = NoSequencerCall
    /\ rm = NoRender
    /\ ExtraIdle
    /\ \E file \in {FileMissing, FileJson(StoredData)},
          redis \in {<<>>, <<StoredData>>},
          u1, u2 \in FieldUpdates :
          /\ redis # <<>> => use_celery
          /\ u1[1] # u2[1]
          /\ adm = [pc |-> "posts", file |-> file, redis |-> redis, cache |-> 0,
                    dicts |-> [d \in 1..4 |-> default_config],
                    poster |-> [p \in Posters |->
                                  [IdlePoster EXCEPT !.update = IF p = 1 THEN u1 ELSE u2]]]

SpecTwoPosts == InitTwoPosts /\ [][NextTwoPosts]_vars

\* ---------------------------------------------------------------- renderer
\* render.render_mix from the measuring of the processed tracks on, and
\* audio.processor.render_professional_mix.  Seconds are counted in
\* milliseconds (render._t rounds to 3 decimals); 20 % of a duration is
\* counted in fifths of a millisecond.
\* _t(min(cross_d, duration_a * 0.2, duration_b * 0.2)): x comes in fifths.
t_of_fifths(x) == (x + 2) \div 5

\* render_mix's cross_d: the strategy's crossfade, at least 0.5 s, then at
\* most 20 % of either processed track, then at most 120 s.
cross_d_of(crossfade_sec, duration_a, duration_b) ==
    Min2(t_of_fifths(Min2(Min2(5 * Max2(500, crossfade_sec), duration_a), duration_b)),
         120000)

\* render_professional_mix: cross_d = max(0.1, min(round(cross_d, 3), 120.0)),
\* the d= of the acrossfade filter.
acrossfade_d(cross_d) == Max2(100, Min2(cross_d, 120000))

\* render_professional_mix: the test after the first run for running ffmpeg
\* again without loudnorm, never true.
runs_fallback_never(returncode, mentions_loudnorm) == FALSE

\* render_professional_mix: the test after the first run for running ffmpeg
\* again without loudnorm.
runs_fallback(returncode, mentions_loudnorm) ==
    returncode # 0 /\ (returncode = 234 \/ mentions_loudnorm)

\* What a run of ffmpeg can end as.  A failure in the loudnorm filter is
\* reported under the filter's name ("[Parsed_loudnorm_...") or ends with 234.
FfmpegOk == [returncode |-> 0, mentions_loudnorm |-> FALSE, cause |-> "none"]
FfmpegOutcomes ==
    {FfmpegOk,
     [returncode |-> 0, mentions_loudnorm |-> TRUE, cause |-> "none"],
     [returncode |-> 1, mentions_loudnorm |-> TRUE, cause |-> "loudnorm"],
     [returncode |-> 234, mentions_loudnorm |-> TRUE, cause |-> "loudnorm"],
     [returncode |-> 234, mentions_loudnorm |-> FALSE, cause |-> "other"],
     [returncode |-> 1, mentions_loudnorm |-> TRUE, cause |-> "other"],
     [returncode |-> 1, mentions_loudnorm |-> FALSE, cause |-> "other"]}

NoRun == [returncode |-> -1, mentions_loudnorm |-> FALSE, cause |-> "none"]

\* A call under way.  caller: "render_mix", or "direct" for a call of
\* render_professional_mix by itself.
RenderCall(caller, pc, crossfade_sec, duration_a, duration_b, had_vocal, had_instrument, cross_d) ==
    [pc |-> pc, caller |-> caller, crossfade_sec |-> crossfade_sec,
     duration_a |-> duration_a, duration_b |-> duration_b,
     had_vocal |-> had_vocal, had_instrument |-> had_instrument,
     cross_d |-> cross_d, handed |-> FALSE,
     cloud_temp |-> "none", cloud_temp_dir |-> FALSE,
     runs |-> 0, first |-> NoRun, last |-> NoRun, last_had_loudnorm |-> FALSE,
     command_d |-> -1, engine |-> "idle", outcome |-> "running"]

rmFrame == <<use_celery, origin, pf, fsVars, redis_job, localVars, bg, pipe,
             celeryVars, streams, histVars, isolationVars, decisionVars, seq, adm, extraVars>>

\* cleanup_temp_dir(cloud_temp_dir) if render_mix holds the directory.
cleaned(r) == IF r.cloud_temp_dir THEN "removed" ELSE r.cloud_temp

\* render_mix: both tracks through _rubberband (a subprocess that can fail),
\* their durations measured, cross_d computed.
render_mix_prepare ==
    /\ rm.pc = "start"
    /\ \/ rm' = [rm EXCEPT !.pc = "done", !.outcome = "raised"]
       \/ rm' = [rm EXCEPT
                   !.cross_d = cross_d_of(rm.crossfade_sec, rm.duration_a, rm.duration_b),
                   !.pc = IF rm.had_vocal \/ rm.had_instrument THEN "download"
                          ELSE "silent"]
    /\ UNCHANGED rmFrame

\* download_urls_to_temp: mkdtemp, then one urlopen per URL; an exception of
\* urlopen leaves the function, and the directory behind.
download_urls_to_temp ==
    /\ rm.pc = "download"
    /\ \/ rm' = [rm EXCEPT !.cloud_temp = "exists", !.cloud_temp_dir = TRUE,
                           !.pc = "verify"]
       \/ rm' = [rm EXCEPT !.cloud_temp = "exists", !.pc = "done",
                           !.outcome = "raised"]
    /\ UNCHANGED rmFrame

\* render_mix: every downloaded file exists and is not empty, or RuntimeError.
verify_cloud_samples ==
    /\ rm.pc = "verify"
    /\ \/ rm' = [rm EXCEPT !.pc = IF rm.had_vocal /\ rm.had_instrument THEN "call"
                                  ELSE "silent"]
       \/ rm' = [rm EXCEPT !.pc = "done", !.outcome = "raised"]
    /\ UNCHANGED rmFrame

\* render_mix: _create_silent_wav for each input there is no sample for
\* (a subprocess with check=True).
create_silent_wav ==
    /\ rm.pc = "silent"
    /\ \/ rm' = [rm EXCEPT !.pc = "call"]
       \/ rm' = [rm EXCEPT !.pc = "done", !.outcome = "raised"]
    /\ UNCHANGED rmFrame

\* render_mix: processor_mix(a_proc, b_proc, vocal, instrument, output_path,
\* cross_d, ...) inside try/finally.  The call names six positional arguments
\* and the keywords vocal_bpm and instrument_bpm; the revision of
\* render_professional_mix under audio/processor.py takes four positional
\* arguments: with it the call raises TypeError; with the revision the call
\* was written for, cross_d arrives as cross_d.
processor_mix_call ==
    /\ rm.pc = "call"
    /\ \/ rm' = [rm EXCEPT !.handed = TRUE, !.pc = "done", !.outcome = "raised",
                           !.cloud_temp = cleaned(rm)]
       \/ rm' = [rm EXCEPT !.handed = TRUE, !.pc = "run1"]
    /\ UNCHANGED rmFrame

\* render_professional_mix: the command with loudnorm is run.
ffmpeg_with_loudnorm ==
    /\ rm.pc = "run1"
    /\ \E result \in FfmpegOutcomes :
          rm' = [rm EXCEPT !.runs = @ + 1, !.first = result, !.last = result,
                           !.last_had_loudnorm = TRUE,
                           !.command_d = acrossfade_d(rm.cross_d),
                           !.pc = IF runs_fallback(result.returncode,
                                                   result.mentions_loudnorm)
                                    THEN "run2" ELSE "result"]
    /\ UNCHANGED rmFrame

\* render_professional_mix: the command without loudnorm is run.
ffmpeg_without_loudnorm ==
    /\ rm.pc = "run2"
    /\ \E result \in {r \in FfmpegOutcomes : ~r.mentions_loudnorm} :
          rm' = [rm EXCEPT !.runs = @ + 1, !.last = result,
                           !.last_had_loudnorm = FALSE, !.pc = "result"]
    /\ UNCHANGED rmFrame

\* render_professional_mix raises if the last result is not 0, else returns;
\* render_mix then runs its finally (cleanup_temp_dir) and returns or lets
\* the exception go.
render_professional_mix_ends ==
    /\ rm.pc = "result"
    /\ LET ok == rm.last.returncode = 0
       IN  rm' = [rm EXCEPT !.engine = IF ok THEN "returned" ELSE "raised",
                            !.outcome = IF ok THEN "returned" ELSE "raised",
                            !.cloud_temp = IF rm.caller = "render_mix"
                                             THEN cleaned(rm) ELSE @,
                            !.pc = "done"]
    /\ UNCHANGED rmFrame

NextRender ==
    \/ render_mix_prepare
    \/ download_urls_to_temp
    \/ verify_cloud_samples
    \/ create_silent_wav
    \/ processor_mix_call
    \/ ffmpeg_with_loudnorm
    \/ ffmpeg_without_loudnorm
    \/ render_professional_mix_ends

\* ---- the calls examined
\* crossfade_sec of a MixStrategy (0.5 <= crossfade_sec <= 120).
StrategyCrossfades == {500, 8000, 120000}
\* Durations of processed tracks: very short, not a multiple of 5 ms, usual, long.
ProcessedDurations == {400, 1003, 30000, 700000}
\* cross_d of a direct call of render_professional_mix.
DirectCrossD == {50, 100, 8000, 130000}

InitRender ==
    /\ use_celery = FALSE
    /\ SessionStart
    /\ IsolationIdle
    /\ DecisionIdle
    /\ seq = NoSequencerCall
    /\ adm = NoAdmin
    /\ ExtraIdle
    /\ \/ \E cf \in StrategyCrossfades, a, b \in ProcessedDurations,
             v, i \in BOOLEAN :
             rm = RenderCall("render_mix", "start", cf, a, b, v, i, -1)
       \/ \E d \in DirectCrossD :
             rm = RenderCall("direct", "run1", 0, 0, 0, FALSE, FALSE, d)

SpecRender == InitRender /\ [][NextRender]_vars

\* ---------------------------------------------------------------- style prompt
\* decision.style_prompt_to_intent on the text of a prompt.  A text is a
\* sequence of fragments (words, parts of words, blanks); `x in text` is the
\* search for the fragments of x, in a row, in the text.
IsSubstring(x, text) ==
    \E i \in 0..(Len(text) - Len(x)) : SubSeq(text, i + 1, i + Len(x)) = x

\* str.lower()
lower(text) ==
    [i \in 1..Len(text) |->
        CASE text[i] = "Prog" -> "prog" [] text[i] = "PEAK" -> "peak"
          [] text[i] = "Sunset" -> "sunset" [] OTHER -> text[i]]

\* The keyword tuples of the six families, in the order of the if statements.
FamilyNames == <<"cattaneo", "anyma", "closing", "warmup", "emotional", "aggressive">>

Keywords(family) ==
    CASE family = "cattaneo" ->
           {<<"cattaneo">>, <<"prog", "ressive">>, <<"prog", "resivo">>, <<"prog">>}
      [] family = "anyma" -> {<<"anyma">>, <<"dinámico">>, <<"dinamico">>}
      [] family = "closing" ->
           {<<"closing">>, <<"5", "am">>, <<"5", " ", "am">>,
            <<"end", " ", "of", " ", "night">>, <<"last", " ", "track">>, <<"finish">>}
      [] family = "warmup" ->
           {<<"warm", "-", "up">>, <<"warm", " ", "up">>, <<"sunset">>, <<"opening">>,
            <<"early">>, <<"chill">>, <<"ambient">>}
      [] family = "emotional" ->
           {<<"emotional">>, <<"nostalgic">>, <<"melancholic">>, <<"mixed", "-", "age">>}
      [] family = "aggressive" ->
           {<<"peak">>, <<"energy">>, <<"club">>, <<"party">>, <<"drop">>, <<"aggressive">>}

\* any(x in text for x in (...))
any_in(family, text) == \E x \in Keywords(family) : IsSubstring(x, text)

\* A prompt: None, or a text.
NoPrompt == [given |-> FALSE, text |-> <<>>]
PromptText(text) == [given |-> TRUE, text |-> text]

\* not dj_style_prompt or not dj_style_prompt.strip()
prompt_blank(dj_style_prompt) ==
    ~dj_style_prompt.given \/ strip(dj_style_prompt.text) = <<>>

\* Which return statement of style_prompt_to_intent a prompt reaches: "none"
\* for the one of the empty prompt, "other" for the last one.
prompt_family(dj_style_prompt) ==
    IF prompt_blank(dj_style_prompt) THEN "none"
    ELSE LET text == strip(lower(dj_style_prompt.text))
         IN  IF any_in("cattaneo", text) THEN "cattaneo"
             ELSE IF any_in("anyma", text) THEN "anyma"
             ELSE IF any_in("closing", text) THEN "closing"
             ELSE IF any_in("warmup", text) THEN "warmup"
             ELSE IF any_in("emotional", text) THEN "emotional"
             ELSE IF any_in("aggressive", text) THEN "aggressive"
             ELSE "other"

\* admin_config.get_default_bars: int(cfg.get("default_bars", 32)), and 32 for
\* a value that is not 16, 32 or 64.
get_default_bars(cfg_default_bars) ==
    LET v == IF cfg_default_bars = Absent THEN 32 ELSE cfg_default_bars[2]
    IN  IF v \in {16, 32, 64} THEN v ELSE 32

\* ---- the calls examined
\* Most fragments in a prompt.
MaxPromptLen == 3

PromptFragments ==
    {" ", "Prog", "ressive", "anyma", "closing", "Sunset", "nostalgic", "PEAK", "hello"}

Prompts_text ==
    {NoPrompt} \cup
    UNION {{PromptText(t) : t \in [1..n -> PromptFragments]} : n \in 0..MaxPromptLen}

\* What the admin config file holds under default_bars.
StoredDefaultBars == {Absent, Num(16), Num(32), Num(64), Num(48)}

styleFrame == <<use_celery, origin, pf, fsVars, redis_job, localVars, bg, pipe,
                celeryVars, streams, histVars, isolationVars, decisionVars, toolVars,
                par, up>>

\* style_prompt_to_intent(dj_style_prompt) returns.
call_style_prompt_to_intent ==
    /\ style.pc = "prompt"
    /\ style' = [style EXCEPT
                   !.pc = "intent",
                   !.intent = style_prompt_to_intent(
                                  prompt_family(style.dj_style_prompt),
                                  get_default_bars(style.default_bars))]
    /\ UNCHANGED styleFrame

NextStyle == call_style_prompt_to_intent

InitStyle ==
    /\ use_celery = FALSE
    /\ SessionStart
    /\ IsolationIdle
    /\ DecisionIdle
    /\ seq = NoSequencerCall
    /\ rm = NoRender
    /\ adm = NoAdmin
    /\ par = NoParallel
    /\ up = NoUploads
    /\ \E prompt \in Prompts_text, bars \in StoredDefaultBars :
          style = [pc |-> "prompt", dj_style_prompt |-> prompt, default_bars |-> bars,
                   intent |-> [preferred_transition_bars |-> 0, vibe |-> "none",
                               start_early |-> FALSE, decisive |-> FALSE]]

SpecStyle == InitStyle /\ [][NextStyle]_vars

\* ---------------------------------------------------------------- renders in parallel
\* The render_segment tasks of one chord (and the background renders of one
\* two-track session) call render_mix with the same work_dir, the session
\* directory.  Of that directory the intermediate files are kept: which render
\* wrote each one last (0: the file is not there).
\* render_segment tasks of one session that an audio worker pool runs at once.
MaxParallel == 2

Intermediates == {"a_proc.wav", "b_proc.wav", "silent_vocal.wav", "silent_instrument.wav"}

IdleRenderMix ==
    [pc |-> "start", had_vocal |-> FALSE, had_instrument |-> FALSE,
     measured |-> <<0, 0>>, mixed |-> <<0, 0>>]

parFrame == <<use_celery, origin, pf, fsVars, redis_job, localVars, bg, pipe,
              celeryVars, streams, histVars, isolationVars, decisionVars, toolVars,
              style, up>>

\* _rubberband(path_a, a_proc, ...): ffmpeg -y or rubberband writes a_proc.wav.
par_rubberband_a(k) ==
    /\ par.render[k].pc = "start"
    /\ par' = [par EXCEPT !.files["a_proc.wav"] = k, !.render[k].pc = "a_proc"]
    /\ UNCHANGED parFrame

\* _rubberband(path_b, b_proc, ...)
par_rubberband_b(k) ==
    /\ par.render[k].pc = "a_proc"
    /\ par' = [par EXCEPT !.files["b_proc.wav"] = k, !.render[k].pc = "b_proc"]
    /\ UNCHANGED parFrame

\* _duration(a_proc), _duration(b_proc): ffprobe with check=True raises on a
\* file that is not there.
par_duration(k) ==
    /\ par.render[k].pc = "b_proc"
    /\ IF par.files["a_proc.wav"] = 0 \/ par.files["b_proc.wav"] = 0
         THEN par' = [par EXCEPT !.render[k].pc = "raised"]
         ELSE par' = [par EXCEPT !.render[k].pc = "measured",
                                 !.render[k].measured =
                                     <<par.files["a_proc.wav"], par.files["b_proc.wav"]>>]
    /\ UNCHANGED parFrame

\* _create_silent_wav(work_dir, "silent_vocal.wav") and (..., "silent_instrument.wav")
\* for the overlay the strategy has no cloud sample for.
par_create_silent_wav(k) ==
    /\ par.render[k].pc = "measured"
    /\ \E had_vocal, had_instrument \in BOOLEAN :
          par' = [par EXCEPT
                    !.files = [n \in Intermediates |->
                                 IF \/ n = "silent_vocal.wav" /\ ~had_vocal
                                    \/ n = "silent_instrument.wav" /\ ~had_instrument
                                   THEN k ELSE par.files[n]],
                    !.render[k].pc = "placeholders",
                    !.render[k].had_vocal = had_vocal,
                    !.render[k].had_instrument = had_instrument]
    /\ UNCHANGED parFrame

\* The files processor_mix is handed from the work directory.
par_inputs(k) ==
    {"a_proc.wav", "b_proc.wav"}
       \cup (IF par.render[k].had_vocal THEN {} ELSE {"silent_vocal.wav"})
       \cup (IF par.render[k].had_instrument THEN {} ELSE {"silent_instrument.wav"})

\* processor_mix(a_proc, b_proc, ...): FFmpeg reads what the files hold by now
\* and writes the output, or the call raises (it always does when an input is
\* gone).
par_processor_mix(k) ==
    /\ par.render[k].pc = "placeholders"
    /\ \/ /\ \A n \in par_inputs(k) : par.files[n] # 0
          /\ par' = [par EXCEPT !.render[k].pc = "mixed",
                                !.render[k].mixed =
                                    <<par.files["a_proc.wav"], par.files["b_proc.wav"]>>]
       \/ par' = [par EXCEPT !.render[k].pc = "raised"]
    /\ UNCHANGED parFrame

\* for p in (a_proc, b_proc): p.unlink(), OSError ignored.
par_unlink(k) ==
    /\ par.render[k].pc = "mixed"
    /\ par' = [par EXCEPT !.files["a_proc.wav"] = 0, !.files["b_proc.wav"] = 0,
                          !.render[k].pc = "done"]
    /\ UNCHANGED parFrame

NextParallel ==
    \E k \in 1..MaxParallel :
        \/ par_rubberband_a(k)
        \/ par_rubberband_b(k)
        \/ par_duration(k)
        \/ par_create_silent_wav(k)
        \/ par_processor_mix(k)
        \/ par_unlink(k)

InitParallel ==
    /\ use_celery = TRUE
    /\ SessionStart
    /\ IsolationIdle
    /\ DecisionIdle
    /\ seq = NoSequencerCall
    /\ rm = NoRender
    /\ adm = NoAdmin
    /\ style = NoIntent
    /\ up = NoUploads
    /\ par = [pc |-> "run", files |-> [n \in Intermediates |-> 0],
              render |-> [k \in 1..MaxParallel |-> IdleRenderMix]]

SpecParallel == InitParallel /\ [][NextParallel]_vars

\* ---------------------------------------------------------------- two-track uploads by name
\* main._save_upload_to_session and main._get_two_track_paths on the names of
\* the files: song_<label><ext>.  Of each file the number of the upload that
\* wrote it is kept (0: the file is not there).
\* Uploads one session is sent.
MaxUploads == 3

Labels == {"a", "b"}
AllowedExts == {".wav", ".mp3", ".flac", ".ogg", ".m4a"}

\* str.lower() of a suffix.
lower_ext(ext) == IF ext = ".MP3" THEN ".mp3" ELSE ext

\* The suffixes of the file names clients send; "" for a name without one.
SentExts == {"", ".wav", ".mp3", ".MP3", ".txt"}

\* ext = Path(upload.filename or "audio").suffix or ".wav", and ".wav" for a
\* suffix that is not an audio one.
stored_ext(sent) ==
    LET ext == IF sent = "" THEN ".wav" ELSE sent
    IN  IF lower_ext(ext) \notin AllowedExts THEN ".wav" ELSE ext

SongNames == {<<label, stored_ext(sent)>> : label \in Labels, sent \in SentExts}

NoName == <<"none", "">>

upFrame == <<use_celery, origin, pf, fsVars, redis_job, localVars, bg, pipe,
             celeryVars, streams, histVars, isolationVars, decisionVars, toolVars,
             style, par>>

\* POST /upload/{id}/a or /b: _save_upload_to_session writes
\* song_<label><ext>, unless the content is over the size cap (400).
save_upload(label, sent, too_large) ==
    /\ up.uploads < MaxUploads
    /\ IF too_large
         THEN up' = [up EXCEPT !.uploads = @ + 1, !.picked = <<NoName, NoName>>,
                               !.code = 400]
         ELSE up' = [up EXCEPT
                       !.uploads = @ + 1,
                       !.files[<<label, stored_ext(sent)>>] = up.uploads + 1,
                       !.latest[label] = up.uploads + 1,
                       !.picked = <<NoName, NoName>>,
                       !.code = 200]
    /\ UNCHANGED upFrame

upload_named == \E label \in Labels, sent \in SentExts, too_large \in BOOLEAN :
                   save_upload(label, sent, too_large)

\* next((p for p in session_dir.iterdir() if ... p.name.startswith("song_<label>")),
\* None): iterdir yields the entries in arbitrary order, so any file of the
\* label may be the first.
first_song(label) ==
    IF \E n \in SongNames : n[1] = label /\ up.files[n] # 0
      THEN {n \in SongNames : n[1] = label /\ up.files[n] # 0}
      ELSE {NoName}

\* POST /generate/{id} up to the choice of the two paths: 400 when one is None.
get_two_track_paths ==
    /\ up.pc = "run"
    /\ \E path_a \in first_song("a"), path_b \in first_song("b") :
          up' = [up EXCEPT !.picked = <<path_a, path_b>>,
                           !.code = IF path_a = NoName \/ path_b = NoName
                                      THEN 400 ELSE 200]
    /\ UNCHANGED upFrame

NextUploads ==
    \/ upload_named
    \/ get_two_track_paths

InitUploads ==
    /\ use_celery = FALSE
    /\ SessionStart
    /\ IsolationIdle
    /\ DecisionIdle
    /\ seq = NoSequencerCall
    /\ rm = NoRender
    /\ adm = NoAdmin
    /\ style = NoIntent
    /\ par = NoParallel
    /\ up = [pc |-> "run", uploads |-> 0, files |-> [n \in SongNames |-> 0],
             latest |-> [label \in Labels |-> 0],
             picked |-> <<NoName, NoName>>, code |-> 0]

SpecUploads == InitUploads /\ [][NextUploads]_vars

\* ---------------------------------------------------------------- finalize_set on its arguments
\* finalize_set is a Celery task: its segment_path_results are whatever the
\* chord's header returned, and the disk is whatever it is when the task
\* runs.  Here the task is applied to every short list of results over every
\* set of segment files, with the session's job present or expired.
MaxHanded == 2

\* segment_path_results: the lists of at most MaxHanded segment paths.
HandedResults ==
    UNION {[1..n -> 0..(MaxTracks - 2)] : n \in 0..MaxHanded}

\* The job the brain left for finalize_set: its directory and its tracklist.
HandedJob ==
    [EmptyJob EXCEPT !.status = "processing", !.phase = "rendering",
                     !.session_dir = TRUE, !.tracklist_lines = <<0>>]

\* "if not segment_paths": status failed, return; finally deletes the directory.
finalize_no_segments ==
    /\ final.pc = "concat"
    /\ header = <<>>
    /\ set_job(FailedJob("No segments rendered"))
    /\ delete_session_dir
    /\ final' = [final EXCEPT !.pc = "done"]
    /\ UNCHANGED <<brain, header, seg_state>>
    /\ UNCHANGED taskFrame

NextFinalize ==
    \/ finalize_start
    \/ finalize_no_segments
    \/ header # <<>> /\ finalize_ok
    \/ header # <<>> /\ finalize_raises

InitFinalize ==
    /\ use_celery = TRUE
    /\ origin = "folder"
    /\ pf = IdleRequest
    /\ dir_exists = TRUE
    /\ files \in SUBSET {Seg(k) : k \in 0..(MaxTracks - 2)}
    /\ set_content = <<>>
    /\ tracklist_content = <<>>
    /\ redis_job \in {NoJob, HandedJob}
    /\ sessions = "absent"
    /\ job_status = "absent"
    /\ job_result = "absent"
    /\ job_error = "none"
    /\ folder_jobs = NoJob
    /\ bg = [i \in 1..MaxRenders |-> "idle"]
    /\ pipe = IdlePipe
    /\ brain = [IdleBrain EXCEPT !.pc = "done"]
    /\ header \in HandedResults
    /\ seg_state = [k \in 1..Len(header) |-> "ok"]
    /\ final = [IdleFinal EXCEPT !.pc = "waiting"]
    /\ streams = [i \in 1..MaxStreams |-> IdleStream]
    /\ downloaded = FALSE
    /\ abandoned = FALSE
    /\ tracklist_served = FALSE
    /\ was_processing = FALSE
    /\ IsolationIdle
    /\ DecisionIdle
    /\ ToolsIdle

SpecFinalize == InitFinalize /\ [][NextFinalize]_vars

\* ================================================================ claims
\* The tasks of the folder pipeline have all stopped: nothing of the pipeline
\* is queued or running, and a chord whose header failed never calls its body.
ChordErrored == \E k \in 1..Len(header) : seg_state[k] = "failed"

CeleryTasksStopped ==
    /\ brain.pc \in {"done", "raised"}
    /\ \A k \in 1..Len(header) : seg_state[k] \in {"ok", "failed"}
    /\ \/ final.pc \in {"none", "done", "raised"}
       \/ final.pc = "waiting" /\ ChordErrored

LocalTasksStopped == pipe.pc \in {"done", "raised"}

\* C1: in the Celery folder pipeline no render_segment task exists or runs
\* before the brain task has planned every transition and returned, and
\* finalize_set has started only if every render_segment task of the chord
\* header has completed successfully.
C1_TaskOrder ==
    /\ (header # <<>> \/ final.pc # "none") =>
          /\ brain.pc = "done"
          /\ Len(brain.lines) = brain.total
    /\ final.pc \in {"concat", "done", "raised"} =>
          \A k \in 1..Len(header) : seg_state[k] = "ok"

\* C1 witness: finalize_set ran to the end after the render task and the brain.
C1_Witness ==
    /\ final.pc = "done"
    /\ header # <<>>
    /\ \A k \in 1..Len(header) : seg_state[k] = "ok"
    /\ redis_job # NoJob /\ redis_job.status = "ready"

\* C2: once the brain task has dispatched the chord for a roadmap of
\* total_segments = N - 1 transitions, the header holds one render_segment task
\* per transition, indices 0 .. N-2 in order.
C2_OneTaskPerTransition ==
    (brain.pc = "done" /\ final.pc # "none") => header = Indices(brain.total)

\* C3: in the finished set the k-th concatenated segment and the k-th tracklist
\* block are those of roadmap transition k, for every transition of the roadmap.
C3_RoadmapOrder ==
    (SetFinal \in files /\ TracklistTxt \in files) =>
        /\ \A k \in 1..Len(set_content) : set_content[k] = k - 1
        /\ \A k \in 1..Len(tracklist_content) : tracklist_content[k] = k - 1

\* C4: when a render_segment task of the session has failed and the tasks of the
\* session have stopped, the session's status is failed and its directory
\* (with any partial segment) is gone.
C4_RenderFailureMarksFailed ==
    (ChordErrored /\ CeleryTasksStopped /\ redis_job # NoJob) =>
        /\ StatusOf(redis_job) = "failed"
        /\ ~dir_exists

\* C5: when the brain phase or the finalize phase of a folder pipeline has
\* raised, the session's status is failed with an error message and the session
\* directory is deleted, in the in-process pipeline and in the Celery tasks.
C5_RaiseMarksFailed ==
    /\ (pipe.pc = "raised" /\ folder_jobs # NoJob) =>
          /\ folder_jobs.status = "failed"
          /\ folder_jobs.error # "none"
          /\ ~dir_exists
    /\ ((brain.pc = "raised" \/ final.pc = "raised") /\ redis_job # NoJob) =>
          /\ StatusOf(redis_job) = "failed"
          /\ redis_job.error # "none"
          /\ ~dir_exists

\* C6: once the tasks of a session that entered processing have stopped, the
\* status reported for the session (while it has a state record) is ready or
\* failed, never processing.
C6_NoStuckProcessing ==
    (/\ was_processing
     /\ origin = "folder"
     /\ IF use_celery THEN CeleryTasksStopped /\ redis_job # NoJob
                      ELSE LocalTasksStopped /\ folder_jobs # NoJob)
    => get_process_folder_status[2] \in {"ready", "failed"}

\* C7: a session whose status is ready or failed is never moved back to
\* uploading or processing by a later step.
C7_TerminalStatusPersists ==
    [][get_generate_status[2] \in {"ready", "failed"}
         => get_generate_status[2]' \notin {"uploading", "processing"}]_vars

\* A stream of the session runs to completion in this step: it had yielded its
\* last chunk, was asked for more and was a delete_after stream.
StreamCompletes ==
    \E i \in 1..MaxStreams :
        /\ streams[i].pc = "reading"
        /\ streams[i].pos = NumChunks
        /\ streams[i].delete_after
        /\ streams'[i] = IdleStream
        /\ downloaded'

\* C8: a step of a download stream changes the session directory only when it
\* is the completion of a delete_after stream after its last chunk; every other
\* stream step, in particular closing the stream early, leaves the directory,
\* its files and the job state as they were, so that what a download request
\* would answer is unchanged.
C8_DeleteOnlyAfterLastChunk ==
    [][streams' # streams =>
          \/ StreamCompletes
          \/ /\ UNCHANGED <<dir_exists, files, redis_job, localVars>>
             /\ download_mix_code' = download_mix_code
             /\ download_folder_set_code' = download_folder_set_code]_vars

\* C8 witness: a stream was closed early, the set is still there and a new
\* download request would be answered 200.
C8_Witness ==
    /\ abandoned
    /\ ~downloaded
    /\ \A i \in 1..MaxStreams : streams[i].pc = "idle"
    /\ SetFinal \in files
    /\ download_folder_set_code = 200

\* C9: after a download of the session has streamed to completion the session
\* directory does not exist, GET /download/{id} answers 404 and POST /cleanup
\* removes nothing for the session.
C9_AfterDownload ==
    downloaded =>
        /\ ~dir_exists
        /\ download_mix_code = 404
        /\ cleanup_removed = 0

\* C10: after a completed download status polling does not report ready and
\* offers no download or set URL.
C10_ReapedNotReady ==
    downloaded =>
        /\ get_generate_status[2] # "ready" /\ ~get_generate_status[3]
        /\ get_process_folder_status[2] # "ready" /\ ~get_process_folder_status[3]

\* A step of a tracklist stream of the session: the request that opens it, a
\* chunk, its completion or its early close.
TracklistStreamStep ==
    \E i \in 1..MaxStreams :
        /\ streams'[i] # streams[i]
        /\ \/ streams[i].path = TracklistTxt /\ streams[i].pc # "idle"
           \/ streams'[i].path = TracklistTxt /\ streams'[i].pc # "idle"

CleanupRemoves ==
    /\ dir_exists
    /\ ~dir_exists'
    /\ UNCHANGED <<auxVars, use_celery, origin, pf, redis_job, localVars, bg, pipe, celeryVars,
                   streams, histVars>>

\* The session has a state record in the store in use.
HasStateRecord ==
    IF use_celery THEN redis_job # NoJob
    ELSE sessions # "absent" \/ job_status # "absent" \/ folder_jobs # NoJob

\* C12: POST /cleanup removes the directory of the session only if the session
\* has no state record, counts it as removed, and never removes it while the
\* session is receiving uploads: not while a POST /process-folder request of the
\* session is still saving its files.
C12_CleanupSparesLiveSessions ==
    [][CleanupRemoves =>
          /\ ~HasStateRecord
          /\ cleanup_removed = 1
          /\ pf.pc # "saving"]_vars

\* The pipeline of the session is not running: the session waits for its client.
PipelineIdle ==
    /\ pf.pc # "saving"
    /\ IF use_celery THEN brain.pc = "none" \/ CeleryTasksStopped
                     ELSE pipe.pc = "none" \/ LocalTasksStopped
    /\ \A i \in 1..MaxStreams : streams[i].pc = "idle"

C14_SessionIsolation ==
    /\ \A q \in last_op.paths :
          \/ q[1] = <<"session_root", last_op.sid>>
          \/ q[1] = last_op.tmp /\ q[1][1] = "tmp"
    /\ \A f \in last_op.hit : f.owner = last_op.sid

\* C14 witness: both sessions hold files, and the last operation was a download
\* of one of them that deleted files while the other session's set is on disk.
C14_Witness ==
    /\ last_op.sid = 1
    /\ last_op.hit # {}
    /\ FilesIn(session_dir(1)) = {}
    /\ Exists(<<session_dir(2), SetFinal>>)
    /\ Exists(<<session_dir(2), TracklistTxt>>)

\* The call under examination has come back with a strategy.
StrategyReturned == ret.kind = "returned"

\* C15: when an API key is configured and the LLM request fails or its reply
\* cannot be parsed, get_mix_strategy returns the heuristic strategy of the
\* same arguments; it does not raise.
C15_FallbackOnLLMFailure ==
    (ret # Pending /\ call.client /\ call.llm \in {"fails", "unparsable"}) =>
        /\ StrategyReturned
        /\ ret.strategy = heuristic_strategy(call.analysis_a, call.analysis_b,
                               style_prompt_to_intent(call.dj_style_prompt,
                                                      call.default_bars),
                               call.bass_swap_intensity)

\* C16: in a returned strategy each of the two overlay URLs is null or is the
\* URL of an entry of the cloud-compatible list of the call, and a URL that is
\* null has a null BPM; this for every list, the empty one included.
C16_OverlayUrlsFromList ==
    StrategyReturned =>
        /\ \/ ret.strategy.overlay_instrument_url = "null"
           \/ ret.strategy.overlay_instrument_url \in by_url(call.cloud_compatible_overlays)
        /\ \/ ret.strategy.overlay_vocal_url = "null"
           \/ ret.strategy.overlay_vocal_url \in by_url(call.cloud_compatible_overlays)
        /\ ret.strategy.overlay_instrument_url = "null"
              => ret.strategy.overlay_instrument_bpm = None
        /\ ret.strategy.overlay_vocal_url = "null"
              => ret.strategy.overlay_vocal_bpm = None

\* C17: a strategy returned for a call with only_two_songs and a cloud list
\* that holds an instrument and a vocal has both overlay URLs set.
C17_TwoSongsGetBothOverlays ==
    (/\ StrategyReturned
     /\ call.only_two_songs
     /\ by_cat(call.cloud_compatible_overlays, "instruments") # <<>>
     /\ by_cat(call.cloud_compatible_overlays, "vocals") # <<>>)
    => /\ HasUrl(ret.strategy.overlay_instrument_url)
       /\ HasUrl(ret.strategy.overlay_vocal_url)

\* C18: a returned strategy has song_b_transition_start_sec 0, both stretch
\* ratios within [0.5, 2.0] and both pitch shifts within [-12, 12].
C18_RatiosAndPitchInRange ==
    StrategyReturned =>
        /\ ret.strategy.song_b_transition_start_sec = 0
        /\ ret.strategy.song_a_stretch_ratio \in 500..2000
        /\ ret.strategy.song_b_stretch_ratio \in 500..2000
        /\ ret.strategy.song_a_pitch_semitones \in -12..12
        /\ ret.strategy.song_b_pitch_semitones \in -12..12

\* C18 witness: the model asked for a stretch of 2.5 and a pitch of -20 on
\* track A; the strategy came back with 2.0 and -12.
C18_Witness ==
    /\ StrategyReturned
    /\ ret.path = "llm"
    /\ call.data.song_a_stretch_ratio = Num(2500)
    /\ call.data.song_a_pitch_semitones = Num(-20)
    /\ ret.strategy.song_a_stretch_ratio = 2000
    /\ ret.strategy.song_a_pitch_semitones = -12

\* C19: a returned strategy has transition_length_bars among 4, 8, 16, 32, 64
\* and transition_type among the four allowed types; where the model gave no
\* value or a value outside these, they are 8 and beat_match_crossfade.
C19_BarsAndTypeAllowed ==
    StrategyReturned =>
        /\ IsNum(ret.strategy.transition_length_bars)
        /\ ret.strategy.transition_length_bars[2] \in BarLengths
        /\ ret.strategy.transition_type \in TransitionTypes
        /\ ret.path = "llm" =>
              /\ call.data.transition_length_bars \notin {Num(b) : b \in BarLengths}
                    => ret.strategy.transition_length_bars = Num(8)
              /\ call.data.transition_type \notin TransitionTypes
                    => ret.strategy.transition_type = "beat_match_crossfade"

\* C20: if a phrase start of track A lies between outro_A - 30 and
\* duration_A - 1, the song_a_transition_start_sec of a returned strategy is
\* one of the phrase starts in that range.
C20_StartOnPhrase ==
    StrategyReturned =>
        LET a == call.analysis_a
            in_range == {q \in Range(a.phrase_starts_sec) :
                            /\ a.outro_start_sec - 30000 <= q
                            /\ q <= a.duration_sec - 1000}
        IN  in_range # {} => ret.strategy.song_a_transition_start_sec \in in_range

\* C21: every strategy get_mix_strategy returns, on either path, for tracks of
\* at least 1 s, has 0.5 <= crossfade_sec <= min(remaining_A, duration_B - 0.5,
\* 120), with remaining_A = max(0.5, duration_A - song_a_transition_start_sec - 1).
C21_CrossfadeWithinTracks ==
    (StrategyReturned /\ call.analysis_a.duration_sec >= 1000
                      /\ call.analysis_b.duration_sec >= 1000) =>
        LET s == ret.strategy
            remaining_a == Max2(500, call.analysis_a.duration_sec
                                     - s.song_a_transition_start_sec - 1000)
        IN  /\ 500 <= s.crossfade_sec
            /\ s.crossfade_sec <= Min2(Min2(remaining_a,
                                            call.analysis_b.duration_sec - 500), 120000)

\* C23 as stated: in every returned strategy 0 <= bass_swap_sec <= 0.95 *
\* crossfade_sec; when the model supplies no bass swap, and always on the
\* heuristic path, bass_swap_sec = crossfade_sec * (0.8 - 0.6 * intensity).
\* (bass_swap_sec in ms; the products in hundredths of a millisecond.)
NoBassSwapSupplied ==
    call.data.bass_swap_sec \in {Absent, Null} /\ call.data.bass_swap_point \in {Absent, Null}

C23_BassSwapExact ==
    StrategyReturned =>
        LET s == ret.strategy IN
        /\ 0 <= s.bass_swap_sec
        /\ s.bass_swap_sec * 100 <= 95 * s.crossfade_sec
        /\ (ret.path = "heuristic" \/ NoBassSwapSupplied) =>
              s.bass_swap_sec * 100
                 = s.crossfade_sec * (80 - 6 * call.bass_swap_intensity)

\* C23 as the code has it: the same with each value rounded to two decimals:
\* 0 <= bass_swap_sec <= round(0.95 * crossfade_sec, 2), and without a bass
\* swap from the model, and on the heuristic path,
\* bass_swap_sec = round(crossfade_sec * (0.8 - 0.6 * intensity), 2).
C23_BassSwapRounded ==
    StrategyReturned =>
        LET s == ret.strategy IN
        /\ 0 <= s.bass_swap_sec
        /\ s.bass_swap_sec <= ((95 * s.crossfade_sec + 500) \div 1000) * 10
        /\ (ret.path = "heuristic" \/ NoBassSwapSupplied) =>
              s.bass_swap_sec
                 = ((s.crossfade_sec * (80 - 6 * call.bass_swap_intensity) + 500)
                       \div 1000) * 10

\* A model output whose bass swap is beyond the limit was cut to the limit, and
\* a 10 s crossfade at intensity 1 got its bass swap at 2.0 s.
C23_Witness ==
    /\ StrategyReturned /\ ret.path = "llm"
    /\ call.data.bass_swap_sec = Num(60000)
    /\ ret.strategy.crossfade_sec = 10000
    /\ ret.strategy.bass_swap_sec = 9500

\* C24: for every ordered list of N tracks build_roadmap returns exactly N - 1
\* transitions (none when N <= 1), transition i being (track_i, track_i+1), so
\* that track B of transition i is track A of transition i + 1.
C24_RoadmapOverlaps ==
    seq.pc = "roadmap" =>
        LET n == Len(seq.ordered)
            roadmap == seq.roadmap
        IN  /\ Len(roadmap) = IF n <= 1 THEN 0 ELSE n - 1
            /\ \A i \in 1..Len(roadmap) :
                  /\ roadmap[i].path_a = seq.ordered[i].path
                  /\ roadmap[i].analysis_a = seq.ordered[i]
                  /\ roadmap[i].path_b = seq.ordered[i + 1].path
                  /\ roadmap[i].analysis_b = seq.ordered[i + 1]
            /\ \A i \in 1..(Len(roadmap) - 1) :
                  /\ roadmap[i].path_b = roadmap[i + 1].path_a
                  /\ roadmap[i].analysis_b = roadmap[i + 1].analysis_a

\* A roadmap of at least two transitions has been built.
C24_Witness == seq.pc = "roadmap" /\ Len(seq.roadmap) >= 2

Paths(list) == [i \in 1..Len(list) |-> list[i].path]

\* C25 as stated: the five tracks of the example, energy ascending, come out
\* as 120 (8A), 128 (8A), 122 (8B), 124 (5A), 130 (9A), with 4 pairs.
C25_ExampleOrderStated ==
    (seq.pc = "roadmap" /\ seq.analyzed = ExampleTracks /\ seq.ascending) =>
        /\ Paths(seq.ordered) = <<"t1", "t2", "t5", "t3", "t4">>
        /\ Len(seq.roadmap) = 4

\* C25 as the code has it: they come out as 120 (8A), 122 (8B), 128 (8A),
\* 130 (9A), 124 (5A), with 4 pairs.
C25_ExampleOrder ==
    (seq.pc = "roadmap" /\ seq.analyzed = ExampleTracks /\ seq.ascending) =>
        /\ Paths(seq.ordered) = <<"t1", "t5", "t2", "t4", "t3">>
        /\ Len(seq.roadmap) = 4

C25_Witness == seq.pc = "roadmap" /\ seq.analyzed = ExampleTracks /\ seq.ascending

\* C26: for valid Camelot codes x and y, d(x, x) = 0, d(x, y) = d(y, x) and
\* 0 <= d(x, y) <= 6; a missing or unparseable code on either side gives 6.
C26_CamelotDistance ==
    seq.pc = "distance" =>
        LET x == seq.camelot_a
            y == seq.camelot_b
        IN  /\ (x \in ValidCodes /\ y \in ValidCodes) =>
                  /\ x = y => seq.dist = 0
                  /\ seq.dist = harmonic_distance_camelot(y, x)
                  /\ 0 <= seq.dist /\ seq.dist <= 6
            /\ (x \notin ValidCodes \/ y \notin ValidCodes) => seq.dist = 6

\* The distance of two codes on opposite sides of the wheel's seam was computed.
C26_Witness ==
    seq.pc = "distance" /\ seq.camelot_a = Code(12, "A") /\ seq.camelot_b = Code(1, "B")
                        /\ seq.dist = 1

\* C27: after POST /admin/config with any subset of fields, every supplied
\* field reads back as the clamped value written and every omitted field keeps
\* the value it had before; this in the answer of the POST and in a GET after it.
Supplied(k) == adm.post.args[k] # Omitted

ReadsBack(result) ==
    \A k \in ConfigKeys :
        /\ ~Supplied(k) => result[k] = adm.before[k]
        /\ (Supplied(k) /\ k \in {"mix_sensitivity", "bass_swap_intensity"}) =>
               result[k] = Max2(0, Min2(10, adm.post.args[k][2]))
        /\ (Supplied(k) /\ k = "default_bars") =>
               result[k] = IF adm.post.args[k][2] \in {16, 32, 64}
                             THEN adm.post.args[k][2] ELSE 32
        /\ (Supplied(k) /\ k \notin {"mix_sensitivity", "bass_swap_intensity",
                                      "default_bars"}) =>
               result[k] = adm.post.args[k][2]

C27_PartialUpdateReadsBack ==
    /\ adm.pc = "run" /\ adm.post.pc = "done" => ReadsBack(adm.post.result)
    /\ (adm.pc = "run" /\ adm.post.pc = "done" /\ adm.get.pc = "idle") =>
          ReadsBack(current)

\* A second POST that gives one slider beyond its range has been answered, the
\* first one having changed another field.
C27_Witness ==
    /\ adm.pc = "run" /\ adm.post.pc = "done" /\ adm.posts = 2
    /\ adm.post.args.mix_sensitivity = Given(15)
    /\ adm.before.default_bars = 64
    /\ adm.post.result.mix_sensitivity = 10
    /\ adm.post.result.default_bars = 64

\* C28: a get_admin_config that runs while set_admin_config does returns the
\* complete previous configuration or the complete new one, never the embedded
\* defaults or a partly written record.
C28_AtomicReplace ==
    (adm.pc = "run" /\ adm.get.pc = "done" /\ adm.posts > 0) =>
        adm.get.result \in adm.complete

\* C22: the crossfade length render_mix hands to the audio engine, and that
\* the engine's command uses, is min(strategy.crossfade_sec, 0.2 * duration_A',
\* 0.2 * duration_B', 120), the durations being those of the processed tracks;
\* so it never exceeds 20 % of either.  (Compared in fifths of a millisecond.)
C22_TwentyPercentRule ==
    (rm.pc = "done" /\ rm.caller = "render_mix" /\ rm.handed) =>
        LET expected == Min2(Min2(Min2(5 * rm.crossfade_sec, rm.duration_a),
                                  rm.duration_b), 5 * 120000)
        IN  /\ 5 * rm.cross_d = expected
            /\ 5 * rm.command_d = expected
            /\ 5 * rm.command_d <= rm.duration_a
            /\ 5 * rm.command_d <= rm.duration_b

\* C29: once render_mix has started fetching cloud overlays to a temp
\* location, that location no longer exists when render_mix returns or raises.
C29_CloudTempRemoved ==
    (rm.pc = "done" /\ rm.caller = "render_mix" /\ rm.cloud_temp # "none") =>
        rm.cloud_temp = "removed"

SessionKnown ==
    IF use_celery THEN redis_job # NoJob
    ELSE sessions # "absent" \/ job_status # "absent"

\* C31: POST /generate/{id} on an existing two-track session for which song A
\* or song B (or both) has not been uploaded is answered 400 (and so starts no
\* render and writes no status).
C31_MissingFilesAre400 ==
    (origin = "two" /\ SessionKnown /\ (Song(0) \notin files \/ Song(1) \notin files))
        => generate_mix_code = 400

\* ---------------------------------------------------------------- C32
\* C32: for a two-track session that was created (and possibly uploaded to) and
\* never asked to generate, GET /generate/{id}/status answers 200 with status
\* new or uploading, in both store modes.
C32_StatusBeforeGenerate ==
    (origin = "two" /\ SessionKnown /\ ~was_processing)
        => /\ get_generate_status[1] = 200
           /\ get_generate_status[2] \in {"new", "uploading"}

\* ---------------------------------------------------------------- C33
\* C33: sort_playlist returns a permutation of its input; with the ascending
\* curve its first element is a track of lowest BPM; and each following element
\* is, among the tracks not yet placed, one of minimum Camelot distance to the
\* track placed before it, and among those one of minimum BPM difference to it.
C33_GreedyOrder ==
    seq.pc \in {"sorted", "roadmap"} =>
        LET input == seq.analyzed
            ordered == seq.ordered
            d(x, y) == harmonic_distance_camelot(x.key_camelot, y.key_camelot)
            diff(x, y) == Abs(x.bpm - y.bpm)
        IN  /\ Len(ordered) = Len(input)
            /\ Range(ordered) = Range(input)
            /\ (seq.ascending /\ ordered # <<>>) =>
                   \A t \in Range(input) : ordered[1].bpm <= t.bpm
            /\ \A k \in 2..Len(ordered) :
                   \A j \in k..Len(ordered) :
                      \/ d(ordered[k - 1], ordered[k]) < d(ordered[k - 1], ordered[j])
                      \/ /\ d(ordered[k - 1], ordered[k]) = d(ordered[k - 1], ordered[j])
                         /\ diff(ordered[k - 1], ordered[k]) <= diff(ordered[k - 1], ordered[j])

\* The example was sorted, the greedy pass moved tracks away from their BPM
\* order, and a tie on the distance was settled by the BPM difference.
C33_Witness ==
    /\ seq.pc = "sorted" /\ seq.analyzed = ExampleTracks /\ seq.ascending
    /\ seq.ordered # sorted_by_bpm(seq.analyzed, TRUE)
    /\ seq.ordered[2].bpm = 122

\* ---------------------------------------------------------------- C34
\* The intent the specification gives for each family.
IntentOf(family) ==
    CASE family = "cattaneo" -> [preferred_transition_bars |-> 64, start_early |-> TRUE,
                                 decisive |-> FALSE]
      [] family = "anyma" -> [preferred_transition_bars |-> 16, start_early |-> FALSE,
                              decisive |-> TRUE]
      [] family = "closing" -> [preferred_transition_bars |-> 8, start_early |-> FALSE,
                                decisive |-> TRUE]
      [] family = "warmup" -> [preferred_transition_bars |-> 16, start_early |-> TRUE,
                               decisive |-> FALSE]
      [] family = "emotional" -> [preferred_transition_bars |-> 16, start_early |-> TRUE,
                                  decisive |-> FALSE]
      [] family = "aggressive" -> [preferred_transition_bars |-> 4, start_early |-> FALSE,
                                   decisive |-> TRUE]

\* The families a prompt matches, by their place in the priority order.
FamiliesHit(dj_style_prompt) ==
    IF prompt_blank(dj_style_prompt) THEN {}
    ELSE {i \in 1..Len(FamilyNames) :
             any_in(FamilyNames[i], strip(lower(dj_style_prompt.text)))}

\* C34: style_prompt_to_intent returns the intent of the first family that
\* matches, in the order progressive, dynamic, closing, warmup, emotional, peak;
\* when none matches (an empty prompt, a text without a keyword) the preferred
\* bars are the admin default_bars.
C34_PriorityAndDefault ==
    style.pc = "intent" =>
        LET hits == FamiliesHit(style.dj_style_prompt)
            got == style.intent
        IN  IF hits = {}
              THEN got.preferred_transition_bars = get_default_bars(style.default_bars)
              ELSE LET first == FamilyNames[CHOOSE i \in hits : \A j \in hits : i <= j]
                   IN  /\ got.preferred_transition_bars
                              = IntentOf(first).preferred_transition_bars
                       /\ got.start_early = IntentOf(first).start_early
                       /\ got.decisive = IntentOf(first).decisive

\* ---------------------------------------------------------------- C35
\* C35: however several POST /generate requests on one two-track session and
\* their background renders interleave, whenever the session's status is ready
\* and no download has completed, the session directory and the mix file named
\* by the job result exist.
C35_ReadyHasMix ==
    (origin = "two" /\ get_generate_status[2] = "ready" /\ ~downloaded)
        => dir_exists /\ MixWav \in files

\* ---------------------------------------------------------------- C36
\* Render k wrote the file and has not yet read it for the last time.
InUseBy(k, n) ==
    LET r == par.render[k] IN
    \/ n = "a_proc.wav" /\ r.pc \in {"a_proc", "b_proc", "measured", "placeholders"}
    \/ n = "b_proc.wav" /\ r.pc \in {"b_proc", "measured", "placeholders"}
    \/ n = "silent_vocal.wav" /\ r.pc = "placeholders" /\ ~r.had_vocal
    \/ n = "silent_instrument.wav" /\ r.pc = "placeholders" /\ ~r.had_instrument

\* C36: renders of one session that run in parallel never write the same
\* intermediate file: a stretched input or a silent placeholder a render
\* created and still uses holds what that render wrote, no other render having
\* overwritten or deleted it.
C36_PrivateIntermediates ==
    par.pc = "run" =>
        \A k \in 1..MaxParallel : \A n \in Intermediates :
            InUseBy(k, n) => par.files[n] = k

\* ---------------------------------------------------------------- C37
\* C37: after any sequence of accepted uploads to a two-track session the
\* directory holds at most one file per label, and a following POST /generate
\* mixes the most recently uploaded file of each label.
C37_OneFilePerLabel ==
    up.pc = "run" =>
        /\ \A label \in Labels :
              Cardinality({n \in SongNames : n[1] = label /\ up.files[n] # 0}) <= 1
        /\ up.picked[1] # NoName => up.files[up.picked[1]] = up.latest["a"]
        /\ up.picked[2] # NoName => up.files[up.picked[2]] = up.latest["b"]

\* ---------------------------------------------------------------- C38
\* C38: a POST /process-folder request that was rejected with 400 (a file over
\* the size cap, fewer than 2 valid files saved) has left no session directory
\* and no job record.
C38_RejectedLeavesNothing ==
    pf.pc = "rejected" =>
        /\ ~dir_exists
        /\ files = {}
        /\ redis_job = NoJob
        /\ folder_jobs = NoJob

\* ---------------------------------------------------------------- C39
\* C39: two POST /admin/config partial updates that set different fields and
\* run concurrently both take effect: once both have returned, each of the two
\* fields holds, in the configuration the next read returns, the value its
\* request wrote.
C39_BothUpdatesKept ==
    (adm.pc = "posts" /\ \A p \in Posters : adm.poster[p].pc = "done") =>
        \A p \in Posters :
            current[adm.poster[p].update[1]] = adm.poster[p].update[2]

====
